---- MODULE Spec2Model ----
(***************************************************************************)
(* Traffic-Analysis-Kortrijk: the incremental sync of the per-segment      *)
(* stores (src/fetch_telraam_data.py) and the traffic/weather/calendar     *)
(* integration run (src/weather_integration.py,                            *)
(* src/calendar_integration.py).                                           *)
(*                                                                         *)
(* Time is counted in minutes from the project epoch, 2025-11-01 00:00     *)
(* UTC; a stored timestamp is the minute its hour starts.  A DataFrame is  *)
(* a record [cols, rows], a CSV file a record [exists, header, lines].     *)
(***************************************************************************)
EXTENDS Integers, Sequences, FiniteSets, TLC

VARIABLES
    clock,        \* the UTC wall clock, in minutes
    apiInclusive, \* whether the sensor API also returns the hour ending at time_start
    upstream,     \* per segment: the hourly rows the sensor API holds
    store,        \* per segment: the file data/<name>_per-hour.csv
    raw,          \* the file data/traffic_two_streets_raw.csv
    pc,           \* position of the running script
    i,            \* main(): index of the segment of the for loop
    existing,     \* update_segment(): the frame read from the store
    window,       \* get_time_window(): its locals start, end and whether it returned None
    calledAt,     \* the clock value get_time_window() read
    attempt,      \* fetch_segment(): the loop counter
    calls,        \* fetch_segment(): POST requests issued by the current call
    waits,        \* fetch_segment(): the sleeps of the current call, in seconds
    new_df,       \* update_segment(): the frame fetch_segment() returned
    outcome,      \* how the last update_segment() call returned
    reported,     \* the "new rows" count the last update_segment() printed
    before,       \* the store file as it was when the last update_segment() call began
    status,       \* per segment: "never" synced, or how the fetch of its last
                  \* update_segment() call ended ("ok": answered with the report,
                  \* "failed": 429s or a request error, "malformed": a response
                  \* without a report list), or "fresh": the API got a row since
    prevStatus,   \* status of the same segment when the call that just returned ended
    dirty,        \* a store was rewritten since combine_raw_data() last ran
    delays,       \* main(): the time.sleep calls of the current run, in seconds
    \* weather_integration.py and calendar_integration.py
    ipc,          \* position of the integration step
    given,        \* the frames as the caller held them before the call
    traffic_df,   \* the caller's traffic frame (the functions write into it)
    weather_df,   \* the caller's weather frame (the merge writes into it)
    merged_df,    \* the frame the function returned
    error,        \* the exception the function raised, "none" if it returned
    entry,        \* how main() is reached: the file run as a script, or imported
    trafficFile,  \* the file data/sintmartenslatemlaan_per-hour.csv
    weatherApi,   \* how the weather archive answers
    req,          \* the request sent to the weather archive
    validation,   \* main(): the validation report
    weatherFile,  \* the file data/weather_kortrijk.csv
    mergedFile,   \* the file data/traffic_weather_merged.csv
    finalFile,    \* the file data/traffic_weather_calendar_integrated.csv
    \* two update_segment invocations of one segment, not ordered by main()
    procs,        \* per invocation: its position and its locals existing, window, new_df
    serialized,   \* whether the caller lets one invocation end before the next begins
    persisted     \* the timestamps the invocations have written to the store

syncVars == <<clock, apiInclusive, upstream, store, raw, pc, i, existing, window,
              calledAt, attempt, calls, waits, new_df, outcome, reported, before,
              status, prevStatus, dirty, delays>>

runVars == <<entry, trafficFile, weatherApi, req, validation, weatherFile,
             mergedFile, finalFile>>

integVars == <<ipc, given, traffic_df, weather_df, merged_df, error, runVars>>

concVars == <<procs, serialized, persisted>>

vars == <<syncVars, integVars, concVars>>

(***************************************************************************)
(* Bounds of the model.                                                    *)
(***************************************************************************)
MaxHour == 2
ClockStep == 45
MaxPublished == 2
MaxRows == 2

(***************************************************************************)
(* Program constants.                                                      *)
(***************************************************************************)
MinutesPerHour == 60
PROJECT_START == 0
TS_COL == "date"
max_retries == 3
BackoffBase == 5
InterCallDelay == 2

SEGMENTS ==
    << [id |-> "9000008372",
        name |-> <<"s","i","n","t","m","a","r","t","e","n","s","l","a","t","e","m","l","a","a","n">>],
       [id |-> "9000009940",
        name |-> <<"g","r","a","a","f","_","k","a","r","e","l","_","d","e","_","g","o","e","d","e","l","a","a","n">>] >>

Segs == 1..Len(SEGMENTS)
\* The count a delivered row carries.
Counts == {1}
Hours == {h * MinutesPerHour : h \in 0..MaxHour}
MaxClock == (MaxHour + 1) * MinutesPerHour - 1

(***************************************************************************)
(* str.replace and str.title on sequences of characters.                   *)
(***************************************************************************)
Lower == <<"a","b","c","d","e","f","g","h","i","j","k","l","m","n","o","p","q","r","s","t","u","v","w","x","y","z">>
Upper == <<"A","B","C","D","E","F","G","H","I","J","K","L","M","N","O","P","Q","R","S","T","U","V","W","X","Y","Z">>

IsAlpha(c) == \E k \in 1..Len(Lower) : Lower[k] = c \/ Upper[k] = c

ToUpper(c) ==
    IF \E k \in 1..Len(Lower) : Lower[k] = c
    THEN Upper[CHOOSE k \in 1..Len(Lower) : Lower[k] = c]
    ELSE c

ToLower(c) ==
    IF \E k \in 1..Len(Upper) : Upper[k] = c
    THEN Lower[CHOOSE k \in 1..Len(Upper) : Upper[k] = c]
    ELSE c

StrReplace(s, old, new) == [k \in 1..Len(s) |-> IF s[k] = old THEN new ELSE s[k]]

StrTitle(s) ==
    [k \in 1..Len(s) |->
        IF k = 1 \/ ~IsAlpha(s[k - 1]) THEN ToUpper(s[k]) ELSE ToLower(s[k])]

StreetName(seg_name) == StrTitle(StrReplace(seg_name, "_", " "))

(***************************************************************************)
(* DataFrames and CSV files.                                               *)
(***************************************************************************)
EmptyFrame == [cols |-> {}, rows |-> <<>>]

NoFile == [exists |-> FALSE, header |-> {}, lines |-> <<>>]

to_csv(df) == [exists |-> TRUE, header |-> df.cols, lines |-> df.rows]

read_csv(file) == [cols |-> file.header, rows |-> file.lines]

get_existing_df(file) == IF file.exists THEN read_csv(file) ELSE EmptyFrame

IsEmpty(df) == Len(df.rows) = 0 \/ df.cols = {}

DataFrame(data) == [cols |-> {TS_COL, "val"}, rows |-> data]

Dates(rows) == {rows[k].date : k \in 1..Len(rows)}

SetMax(S) == CHOOSE m \in S : \A x \in S : x <= m

pd_concat(a, b) == [cols |-> a.cols \cup b.cols, rows |-> a.rows \o b.rows]

Front(s) == SubSeq(s, 1, Len(s) - 1)

Last(s) == s[Len(s)]

\* Mutant: of the rows of one timestamp the last stays.
RECURSIVE drop_duplicates_KeepLast(_)
drop_duplicates_KeepLast(rows) ==
    IF rows = <<>> THEN <<>>
    ELSE LET kept == drop_duplicates_KeepLast(Tail(rows))
         IN  IF Head(rows).date \in Dates(kept) THEN kept ELSE <<Head(rows)>> \o kept

\* drop_duplicates(subset=[TS_COL]): of the rows of one timestamp the first stays.
RECURSIVE drop_duplicates(_)
drop_duplicates(rows) ==
    IF rows = <<>> THEN <<>>
    ELSE LET kept == drop_duplicates(Front(rows))
             r == Last(rows)
         IN  IF r.date \in Dates(kept) THEN kept ELSE Append(kept, r)

RECURSIVE InsertByDate(_, _)
InsertByDate(sorted, r) ==
    IF sorted = <<>> THEN <<r>>
    ELSE IF Last(sorted).date <= r.date THEN Append(sorted, r)
    ELSE Append(InsertByDate(Front(sorted), r), Last(sorted))

\* sort_values(TS_COL): ascending; rows of one timestamp keep their order.
RECURSIVE sort_values(_)
sort_values(rows) ==
    IF rows = <<>> THEN <<>>
    ELSE InsertByDate(sort_values(Front(rows)), Last(rows))

(***************************************************************************)
(* Frames of the integration run: a record [tz, rows]; tz is the timezone  *)
(* of the date column ("naive" when it has none).  A naive date is a wall  *)
(* clock reading, an aware one an instant, both in minutes.  A number that *)
(* may be missing is a record [nan, v].                                    *)
(***************************************************************************)
TIMEZONE == "Europe/Brussels"

NaN == [nan |-> TRUE, v |-> 0]

Num(x) == [nan |-> FALSE, v |-> x]

EmptyTable == [tz |-> "naive", rows |-> <<>>]

NoTable == [exists |-> FALSE, tz |-> "naive", lines |-> <<>>]

NoRequest == [sent |-> FALSE, start_date |-> <<2025, 11, 1>>, end_date |-> <<2025, 11, 1>>]

NoReport ==
    [total_records |-> 0, date_range |-> <<NaN, NaN>>, missing_weather |-> 0,
     missing_traffic |-> 0, duplicate_dates |-> 0,
     temperature_range |-> <<NaN, NaN>>, precipitation_days |-> 0]

RunDefaults ==
    /\ entry = "import"
    /\ trafficFile = NoTable
    /\ weatherApi = [kind |-> "ok", dst |-> "wall"]
    /\ req = NoRequest
    /\ validation = NoReport
    /\ weatherFile = NoTable
    /\ mergedFile = NoTable
    /\ finalFile = NoTable

IntegDefaults ==
    /\ RunDefaults
    /\ ipc = "off"
    /\ given = [traffic |-> EmptyTable, weather |-> EmptyTable]
    /\ traffic_df = EmptyTable
    /\ weather_df = EmptyTable
    /\ merged_df = EmptyTable
    /\ error = "none"

Procs == 1..2

NoWindow == [start |-> 0, end |-> 0, none |-> TRUE]

ConcDefaults ==
    /\ procs = [p \in Procs |-> [pc |-> "off", existing |-> EmptyFrame,
                                  window |-> NoWindow, new_df |-> EmptyFrame]]
    /\ serialized = TRUE
    /\ persisted = {}

(***************************************************************************)
(* get_time_window                                                         *)
(***************************************************************************)
\* Mutant: the hour of the last stored row is requested again.
WindowStart_NoStep(existing_df) ==
    IF IsEmpty(existing_df) \/ TS_COL \notin existing_df.cols
    THEN PROJECT_START
    ELSE SetMax(Dates(existing_df.rows))

\* Mutant: every window starts at the project epoch.
WindowStart_Epoch(existing_df) == PROJECT_START

WindowStart(existing_df) ==
    IF IsEmpty(existing_df) \/ TS_COL \notin existing_df.cols
    THEN PROJECT_START
    ELSE SetMax(Dates(existing_df.rows)) + MinutesPerHour

\* Mutant: the clock is not truncated.
HourFloor_Identity(now_utc) == now_utc

\* now_utc.replace(minute=0, second=0, microsecond=0)
HourFloor(now_utc) == now_utc - (now_utc % MinutesPerHour)

\* Mutant: a window of no hours is still fetched.
WindowIsEmpty_Strict(start, end) == end < start

WindowIsEmpty(start, end) == end <= start

get_time_window(existing_df, now_utc) ==
    LET start == WindowStart(existing_df)
        end == HourFloor(now_utc)
    IN  [start |-> start, end |-> end, none |-> WindowIsEmpty(start, end)]

(***************************************************************************)
(* fetch_segment and the sensor API                                        *)
(***************************************************************************)
\* Mutant: every wait is the base.
BackoffWait_Constant(k) == BackoffBase

\* wait = 5 * attempt
BackoffWait(k) == BackoffBase * k

\* Mutant: the loop runs once more.
HasNextAttempt_OffByOne(k) == k <= max_retries

\* for attempt in range(1, max_retries + 1): another iteration follows attempt k
HasNextAttempt(k) == k < max_retries

\* The rows the API holds for the requested window.  Whether the hour that
\* ends exactly at time_start counts as inside the window is the server's choice.
Report(s, start, end) ==
    LET lo == IF apiInclusive THEN start - MinutesPerHour ELSE start
    IN  {r \in upstream[s] : lo <= r.date /\ r.date <= end}

\* The "report" list of a response: the rows in some order.
Listings(S) ==
    {q \in [1..Cardinality(S) -> S] : \A a, b \in 1..Cardinality(S) : q[a] = q[b] => a = b}

(***************************************************************************)
(* update_segment                                                          *)
(***************************************************************************)
\* Mutant: the merged rows are not sorted.
Merge_NoSort(existing_df, fetched) ==
    LET combined == pd_concat(existing_df, fetched)
    IN  IF TS_COL \in combined.cols
        THEN [combined EXCEPT !.rows = drop_duplicates(combined.rows)]
        ELSE combined

\* Mutant: the merged rows are not deduplicated.
Merge_NoDedup(existing_df, fetched) ==
    LET combined == pd_concat(existing_df, fetched)
    IN  IF TS_COL \in combined.cols
        THEN [combined EXCEPT !.rows = sort_values(combined.rows)]
        ELSE combined

\* Mutant: only the fetched rows are written.
Merge_FetchedOnly(existing_df, fetched) ==
    IF TS_COL \in fetched.cols
    THEN [fetched EXCEPT !.rows = sort_values(drop_duplicates(fetched.rows))]
    ELSE fetched

Merge(existing_df, fetched) ==
    LET combined == pd_concat(existing_df, fetched)
    IN  IF TS_COL \in combined.cols
        THEN [combined EXCEPT !.rows = sort_values(drop_duplicates(combined.rows))]
        ELSE combined

RowsReported(fetched) == Len(fetched.rows)

\* update_segment returns: how, and what it leaves in the store of segment i.
Return(how, st, df, file) ==
    /\ pc' = "sleep"
    /\ outcome' = how
    /\ new_df' = df
    /\ reported' = IF how = "written" THEN RowsReported(df) ELSE 0
    /\ store' = [store EXCEPT ![i] = file]
    /\ prevStatus' = status[i]
    /\ status' = [status EXCEPT ![i] = st]
    /\ dirty' = (dirty \/ how = "written")

\* Mutant: an empty fetch is merged and written like any other.
AfterFetch_WriteAlways(st, df) ==
    Return("written", st, df, to_csv(Merge(existing, df)))

\* The part of update_segment that follows fetch_segment's return.
AfterFetch(st, df) ==
    IF IsEmpty(df)
    THEN Return("nodata", st, df, store[i])
    ELSE Return("written", st, df, to_csv(Merge(existing, df)))

UpdateSegmentBegin ==
    /\ pc = "update"
    /\ LET df == get_existing_df(store[i])
           w == get_time_window(df, clock)
       IN  /\ existing' = df
           /\ window' = w
           /\ calledAt' = clock
           /\ before' = store[i]
           /\ calls' = 0
           /\ waits' = <<>>
           /\ attempt' = 1
           /\ IF w.none
              THEN Return("noop", "ok", EmptyFrame, store[i])
              ELSE /\ pc' = "post"
                   /\ UNCHANGED <<outcome, new_df, reported, store, prevStatus,
                                  status, dirty>>
    /\ UNCHANGED <<clock, apiInclusive, upstream, raw, i>>
    /\ UNCHANGED delays
    /\ UNCHANGED integVars
    /\ UNCHANGED concVars

\* A POST answered 429: sleep, then the next iteration or the end of the loop.
Post429 ==
    /\ pc = "post"
    /\ calls' = calls + 1
    /\ waits' = Append(waits, BackoffWait(attempt))
    /\ IF HasNextAttempt(attempt)
       THEN /\ attempt' = attempt + 1
            /\ UNCHANGED <<pc, outcome, new_df, reported, store, prevStatus,
                           status, dirty>>
       ELSE /\ attempt' = attempt
            /\ AfterFetch("failed", EmptyFrame)
    /\ UNCHANGED <<clock, apiInclusive, upstream, raw, i, existing, window,
                   calledAt, before>>
    /\ UNCHANGED delays
    /\ UNCHANGED integVars
    /\ UNCHANGED concVars

\* A POST that raises a RequestException (connection error, HTTP error status).
PostError ==
    /\ pc = "post"
    /\ calls' = calls + 1
    /\ AfterFetch("failed", EmptyFrame)
    /\ UNCHANGED <<clock, apiInclusive, upstream, raw, i, existing, window,
                   calledAt, attempt, waits, before>>
    /\ UNCHANGED delays
    /\ UNCHANGED integVars
    /\ UNCHANGED concVars

\* A POST answered 200 with the report of the window.
PostOk ==
    /\ pc = "post"
    /\ calls' = calls + 1
    /\ \E data \in Listings(Report(i, window.start, window.end)) :
          IF data = <<>>
          THEN AfterFetch("ok", EmptyFrame)
          ELSE AfterFetch("ok", DataFrame(data))
    /\ UNCHANGED <<clock, apiInclusive, upstream, raw, i, existing, window,
                   calledAt, attempt, waits, before>>
    /\ UNCHANGED delays
    /\ UNCHANGED integVars
    /\ UNCHANGED concVars

\* A POST answered 200 with a JSON object that has no "report" entry:
\* .get("report", []) yields the empty list.
PostNoReport ==
    /\ pc = "post"
    /\ calls' = calls + 1
    /\ AfterFetch("malformed", EmptyFrame)
    /\ UNCHANGED <<clock, apiInclusive, upstream, raw, i, existing, window,
                   calledAt, attempt, waits, before>>
    /\ UNCHANGED delays
    /\ UNCHANGED integVars
    /\ UNCHANGED concVars

\* The script's locals are gone once it has exited.
ExitLocals ==
    /\ i' = 1
    /\ existing' = EmptyFrame
    /\ window' = [start |-> 0, end |-> 0, none |-> TRUE]
    /\ calledAt' = 0
    /\ attempt' = 1
    /\ calls' = 0
    /\ waits' = <<>>
    /\ new_df' = EmptyFrame
    /\ outcome' = "none"
    /\ reported' = 0
    /\ before' = NoFile
    /\ prevStatus' = "never"
    /\ delays' = <<>>

(***************************************************************************)
(* combine_raw_data                                                        *)
(***************************************************************************)
Tagged(s, files) ==
    LET df == read_csv(files[s])
    IN  [cols |-> df.cols \cup {"street_name"},
         rows |-> [k \in 1..Len(df.rows) |->
                     [date |-> df.rows[k].date, val |-> df.rows[k].val,
                      street_name |-> StreetName(SEGMENTS[s].name)]]]

RECURSIVE LoadAll(_, _)
LoadAll(n, files) ==
    IF n = 0 THEN <<>>
    ELSE IF files[n].exists THEN Append(LoadAll(n - 1, files), Tagged(n, files))
    ELSE LoadAll(n - 1, files)

RECURSIVE ConcatAll(_)
ConcatAll(dfs) ==
    IF dfs = <<>> THEN EmptyFrame ELSE pd_concat(ConcatAll(Front(dfs)), Last(dfs))

\* Mutant: the combined rows are left in concatenation order.
Combined_NoSort(files) == ConcatAll(LoadAll(Len(SEGMENTS), files))

Combined(files) ==
    LET c == ConcatAll(LoadAll(Len(SEGMENTS), files))
    IN  [c EXCEPT !.rows = sort_values(c.rows)]

CombineRawData ==
    /\ pc = "combine"
    /\ raw' = IF LoadAll(Len(SEGMENTS), store) # <<>> THEN to_csv(Combined(store)) ELSE raw
    /\ dirty' = FALSE
    /\ pc' = "idle"
    /\ ExitLocals
    /\ UNCHANGED <<clock, apiInclusive, upstream, store, status>>
    /\ UNCHANGED integVars
    /\ UNCHANGED concVars

(***************************************************************************)
(* main, the clock and the sensors                                         *)
(***************************************************************************)
StartMain ==
    /\ pc = "idle"
    /\ pc' = "update"
    /\ i' = 1
    /\ delays' = <<>>
    /\ UNCHANGED <<clock, apiInclusive, upstream, store, raw, existing, window,
                   calledAt, attempt, calls, waits, new_df, outcome, reported,
                   before, status, prevStatus, dirty>>
    /\ UNCHANGED integVars
    /\ UNCHANGED concVars

\* Mutant: combine_raw_data() follows the first segment.
Sleep2_CombineEarly ==
    /\ pc = "sleep"
    /\ i' = i
    /\ pc' = "combine"
    /\ delays' = Append(delays, InterCallDelay)
    /\ UNCHANGED <<clock, apiInclusive, upstream, store, raw, existing, window,
                   calledAt, attempt, calls, waits, new_df, outcome, reported,
                   before, status, prevStatus, dirty>>
    /\ UNCHANGED integVars
    /\ UNCHANGED concVars

\* time.sleep(2), then the next segment or, after the last one, combine_raw_data()
Sleep2 ==
    /\ pc = "sleep"
    /\ IF i < Len(SEGMENTS)
       THEN i' = i + 1 /\ pc' = "update"
       ELSE i' = i /\ pc' = "combine"
    /\ delays' = Append(delays, InterCallDelay)
    /\ UNCHANGED <<clock, apiInclusive, upstream, store, raw, existing, window,
                   calledAt, attempt, calls, waits, new_df, outcome, reported,
                   before, status, prevStatus, dirty>>
    /\ UNCHANGED integVars
    /\ UNCHANGED concVars

\* The script runs for seconds and the clock is read in steps of ClockStep
\* minutes: time passes, and sensors deliver, between two runs.
Quiet == pc = "idle"

Tick ==
    /\ Quiet
    /\ clock + ClockStep <= MaxClock
    /\ clock' = clock + ClockStep
    /\ UNCHANGED <<apiInclusive, upstream, store, raw, pc, i, existing, window,
                   calledAt, attempt, calls, waits, new_df, outcome, reported,
                   before, status, prevStatus, dirty>>
    /\ UNCHANGED delays
    /\ UNCHANGED integVars
    /\ UNCHANGED concVars

Published == Cardinality(UNION {upstream[s] : s \in Segs})

\* A sensor delivers the row of an hour that is over.
Publish ==
    /\ Quiet
    /\ Published < MaxPublished
    /\ \E s \in Segs, d \in Hours, v \in Counts :
          /\ d + MinutesPerHour <= clock
          /\ [date |-> d, val |-> v] \notin upstream[s]
          /\ upstream' = [upstream EXCEPT ![s] = @ \cup {[date |-> d, val |-> v]}]
          /\ status' = [status EXCEPT ![s] = IF @ = "never" THEN @ ELSE "fresh"]
    /\ UNCHANGED <<clock, apiInclusive, store, raw, pc, i, existing, window,
                   calledAt, attempt, calls, waits, new_df, outcome, reported,
                   before, prevStatus, dirty>>
    /\ UNCHANGED delays
    /\ UNCHANGED integVars
    /\ UNCHANGED concVars

Init ==
    /\ clock = 0
    /\ apiInclusive \in BOOLEAN
    /\ upstream = [s \in Segs |-> {}]
    /\ store = [s \in Segs |-> NoFile]
    /\ raw = NoFile
    /\ pc = "idle"
    /\ i = 1
    /\ existing = EmptyFrame
    /\ window = [start |-> 0, end |-> 0, none |-> TRUE]
    /\ calledAt = 0
    /\ attempt = 1
    /\ calls = 0
    /\ waits = <<>>
    /\ new_df = EmptyFrame
    /\ outcome = "none"
    /\ reported = 0
    /\ before = NoFile
    /\ status = [s \in Segs |-> "never"]
    /\ prevStatus = "never"
    /\ dirty = FALSE
    /\ delays = <<>>
    /\ IntegDefaults
    /\ ConcDefaults

Next ==
    \/ StartMain
    \/ UpdateSegmentBegin
    \/ Post429
    \/ PostError
    \/ PostOk
    \/ PostNoReport
    \/ Sleep2
    \/ CombineRawData
    \/ Tick
    \/ Publish

Spec == Init /\ [][Next]_vars

(***************************************************************************)
(* get_time_window as a function of its inputs: any frame, any clock.      *)
(***************************************************************************)
FrameDates == {-MinutesPerHour, 0, MinutesPerHour, 2 * MinutesPerHour}

SeqsUpTo(S, n) == UNION {[1..m -> S] : m \in 0..n}

InputFrames ==
    {EmptyFrame}
    \cup {[cols |-> {"val"}, rows |-> q] : q \in SeqsUpTo([val : Counts], MaxRows)}
    \cup {[cols |-> {TS_COL, "val"}, rows |-> q] :
            q \in SeqsUpTo([date : FrameDates, val : Counts], MaxRows)}

InputClocks == {c \in -MinutesPerHour..MaxClock : c % 15 = 0}

ApplyGetTimeWindow ==
    /\ pc = "inputs"
    /\ window' = get_time_window(existing, clock)
    /\ calledAt' = clock
    /\ pc' = "windowed"
    /\ UNCHANGED <<clock, apiInclusive, upstream, store, raw, i, existing,
                   attempt, calls, waits, new_df, outcome, reported, before,
                   status, prevStatus, dirty>>
    /\ UNCHANGED delays
    /\ UNCHANGED integVars
    /\ UNCHANGED concVars

WindowInit ==
    /\ clock \in InputClocks
    /\ existing \in InputFrames
    /\ pc = "inputs"
    /\ apiInclusive = FALSE
    /\ upstream = [s \in Segs |-> {}]
    /\ store = [s \in Segs |-> NoFile]
    /\ raw = NoFile
    /\ i = 1
    /\ window = [start |-> 0, end |-> 0, none |-> TRUE]
    /\ calledAt = 0
    /\ attempt = 1
    /\ calls = 0
    /\ waits = <<>>
    /\ new_df = EmptyFrame
    /\ outcome = "none"
    /\ reported = 0
    /\ before = NoFile
    /\ status = [s \in Segs |-> "never"]
    /\ prevStatus = "never"
    /\ dirty = FALSE
    /\ delays = <<>>
    /\ IntegDefaults
    /\ ConcDefaults

WindowNext == ApplyGetTimeWindow

SpecWindow == WindowInit /\ [][WindowNext]_vars

(***************************************************************************)
(* Properties of the sync                                                  *)
(***************************************************************************)

\* C1: get_time_window starts the window at the project epoch when the store
\* is empty or has no timestamp column, and otherwise exactly one hour after
\* the largest stored timestamp.
C1_WindowStartRule ==
    pc = "windowed" =>
        IF Len(existing.rows) = 0 \/ "date" \notin existing.cols
        THEN window.start = 0
        ELSE /\ \E k \in 1..Len(existing.rows) :
                    window.start = existing.rows[k].date + 60
             /\ \A k \in 1..Len(existing.rows) :
                    existing.rows[k].date + 60 <= window.start

\* C1 witness: a window was computed from a store whose largest timestamp is
\* not its last row.
C1_Witness ==
    /\ pc = "windowed"
    /\ "date" \in existing.cols
    /\ Len(existing.rows) = 2
    /\ existing.rows[1].date > existing.rows[2].date
    /\ ~window.none
    /\ window.start = existing.rows[1].date + 60

\* C3: a window that get_time_window returns has start <= end, and its end is
\* the clock truncated to the hour.
C3_WindowInvariant ==
    (pc = "windowed" /\ ~window.none) =>
        /\ window.start <= window.end
        /\ window.end % 60 = 0
        /\ window.end <= calledAt
        /\ calledAt < window.end + 60

\* C3 witness: a window was returned for a non-empty store at a clock value
\* that is not on the hour.
C3_Witness ==
    /\ pc = "windowed"
    /\ ~window.none
    /\ calledAt % 60 # 0
    /\ "date" \in existing.cols
    /\ Len(existing.rows) > 0

\* C2: when the truncated current hour is <= the computed start, update_segment
\* returns normally without a POST, without touching the store and with no
\* row added.
C2_UpToDateNoOp ==
    (pc = "sleep" /\ calledAt - (calledAt % 60) <= window.start) =>
        /\ outcome = "noop"
        /\ calls = 0
        /\ reported = 0
        /\ store[i] = before

\* C2 witness: update_segment returned on a store that holds rows and is up
\* to date.
C2_Witness ==
    /\ pc = "sleep"
    /\ outcome = "noop"
    /\ store[i].exists
    /\ calledAt - (calledAt % 60) = window.start

\* C4: fetch_segment issues at most max_retries POSTs, none is pending once
\* max_retries were issued, and when all of them were answered 429 it
\* returned an empty frame and update_segment returned normally.
C4_BoundedRetry ==
    /\ calls <= 3
    /\ pc = "post" => calls < 3
    /\ (pc = "sleep" /\ calls >= 1 /\ Len(waits) = calls) =>
          /\ calls = 3
          /\ new_df.rows = <<>>
          /\ outcome = "nodata"

\* C4 witness: a fetch whose three POSTs were all answered 429 has returned.
C4_Witness ==
    /\ pc = "sleep"
    /\ calls = 3
    /\ Len(waits) = 3

\* C5: after an update_segment call that fetched rows, the store holds exactly
\* the timestamps of the existing and the fetched rows, one row per
\* timestamp, in ascending order.
C5_MergedStore ==
    (pc = "sleep" /\ outcome = "written") =>
        LET lines == store[i].lines
        IN  /\ store[i].exists
            /\ {lines[k].date : k \in 1..Len(lines)} =
                   {existing.rows[k].date : k \in 1..Len(existing.rows)}
                   \cup {new_df.rows[k].date : k \in 1..Len(new_df.rows)}
            /\ \A a, b \in 1..Len(lines) : a < b => lines[a].date < lines[b].date

\* C5 witness: the fetched rows overlapped the stored rows and came out of
\* order.
C5_Witness ==
    /\ pc = "sleep"
    /\ outcome = "written"
    /\ Len(new_df.rows) = 2
    /\ new_df.rows[1].date > new_df.rows[2].date
    /\ \E k \in 1..Len(existing.rows) : existing.rows[k].date = new_df.rows[2].date

ExpectedLabel ==
    << <<"S","i","n","t","m","a","r","t","e","n","s","l","a","t","e","m","l","a","a","n">>,
       <<"G","r","a","a","f"," ","K","a","r","e","l"," ","D","e"," ","G","o","e","d","e","l","a","a","n">> >>

CombinedAsClaimed ==
    (pc = "idle" /\ \E s \in Segs : store[s].exists) =>
        LET out == raw.lines
            total == Len(store[1].lines) + Len(store[2].lines)
        IN  /\ raw.exists
            /\ Len(out) = total
            /\ \A s \in Segs :
                  /\ Cardinality({k \in 1..Len(out) : out[k].street_name = ExpectedLabel[s]})
                        = Len(store[s].lines)
                  /\ \A k \in 1..Len(store[s].lines) :
                        \E j \in 1..Len(out) :
                            /\ out[j].date = store[s].lines[k].date
                            /\ out[j].val = store[s].lines[k].val
                            /\ out[j].street_name = ExpectedLabel[s]
            /\ \A a, b \in 1..Len(out) : a < b => out[a].date <= out[b].date

\* C10: combine_raw_data writes one table holding every row of every existing
\* store, tagged with the street name and sorted by timestamp; it leaves the
\* stores as they are, and run again on unchanged stores it writes the same
\* table.
C10_Combine ==
    /\ [] CombinedAsClaimed
    /\ [][pc = "combine" => store' = store]_vars
    /\ [][(pc = "combine" /\ ~dirty) => raw' = raw]_vars

\* C10 witness: the table was combined from two stores whose rows interleave.
C10_Witness ==
    /\ pc = "idle"
    /\ raw.exists
    /\ store[1].exists /\ store[2].exists
    /\ Len(store[1].lines) = 1 /\ Len(store[2].lines) = 1
    /\ store[1].lines[1].date > store[2].lines[1].date

\* C11: whenever fetch_segment returns an empty frame (the API had no row of
\* the window, three POSTs were answered 429, a request error occurred),
\* update_segment returns normally and the store of the segment is as it was
\* when the call began.
C11_EmptyFetchLeavesStore ==
    (pc = "sleep" /\ calls >= 1 /\ new_df.rows = <<>>) =>
        /\ outcome = "nodata"
        /\ store[i] = before
        /\ reported = 0

\* C11 witness: a request error ended the fetch of a segment whose store
\* holds rows.
C11_Witness ==
    /\ pc = "sleep"
    /\ status[i] = "failed"
    /\ calls = 1
    /\ waits = <<>>
    /\ store[i].exists
    /\ Len(store[i].lines) >= 1

\* C12: a fetch is degraded to "no new data" by a failure (rate limit,
\* timeout or other request error) only after max_retries attempts.
C12_TransientRetried ==
    (pc = "sleep" /\ status[i] = "failed") => calls = 3

\* C16: no update_segment call removes a timestamp from a store, and a store
\* never holds a timestamp twice.
C16_AppendOnly ==
    /\ [][\A s \in Segs :
             {store[s].lines[k].date : k \in 1..Len(store[s].lines)}
                 \subseteq {store'[s].lines[k].date : k \in 1..Len(store'[s].lines)}]_vars
    /\ [](\A s \in Segs : \A a, b \in 1..Len(store[s].lines) :
             store[s].lines[a].date = store[s].lines[b].date => a = b)

\* C16 witness: a call rewrote a store that held a row, fetching that row
\* again together with a later one.
C16_Witness ==
    /\ pc = "sleep"
    /\ outcome = "written"
    /\ Len(before.lines) = 1
    /\ Len(new_df.rows) = 2
    /\ Len(store[i].lines) = 2
    /\ \E k \in 1..2 : new_df.rows[k].date = before.lines[1].date

\* C18: a sensor response without the report list makes the fetcher raise,
\* so that update_segment does not return normally from it.
C18_SchemaErrorPropagates ==
    (pc = "sleep" /\ status[i] = "malformed") => outcome = "raised"

\* C21: the k-th wait of a fetch_segment call is 5 * k seconds (5, 10, 15: a
\* constant step of 5), a wait is inserted only after a POST answered 429, and
\* a POST answered otherwise (the report, a response without report, a request
\* error) inserts none.
C21_LinearBackoff ==
    /\ [](\A k \in 1..Len(waits) : waits[k] = 5 * k)
    /\ [](\A k \in 2..Len(waits) : waits[k] - waits[k - 1] = 5)
    /\ [](Len(waits) <= calls /\ Len(waits) <= 3)
    /\ [][(pc = "post" /\ waits' # waits) =>
              waits' = Append(waits, 5 * (Len(waits) + 1))]_vars
    /\ [][(pc = "post" /\ pc' = "sleep" /\ (status'[i] # "failed" \/ calls' < 3)) =>
              waits' = waits]_vars

\* C21 witness: a fetch was answered 429 twice and then with rows; it waited 5
\* and 10 seconds.
C21_Witness ==
    /\ pc = "sleep"
    /\ outcome = "written"
    /\ calls = 3
    /\ waits = <<5, 10>>

\* C22: main() runs update_segment for the segments one at a time in the
\* order of SEGMENTS, sleeps 2 seconds after each call returns and before the
\* next begins, and calls combine_raw_data() only when the call of the last
\* segment has returned and been followed by its sleep, whatever the calls
\* fetched.
C22_RunOrdering ==
    /\ [](pc \in {"update", "post", "sleep"} => Len(delays) = i - 1)
    /\ [](pc = "combine" => i = 2 /\ Len(delays) = 2)
    /\ [](\A k \in 1..Len(delays) : delays[k] = 2)
    /\ [][(pc # "update" /\ pc' = "update") =>
              \/ pc = "idle" /\ i' = 1
              \/ pc = "sleep" /\ i' = i + 1 /\ delays' = Append(delays, 2)]_vars
    /\ [][(pc # "sleep" /\ pc' = "sleep") => (pc \in {"update", "post"} /\ i' = i)]_vars
    /\ [][(pc # "combine" /\ pc' = "combine") => (pc = "sleep" /\ i = 2)]_vars
    /\ [][(pc # "post" /\ pc' = "post") => (pc = "update" /\ i' = i)]_vars

\* C22 witness: combine_raw_data() is about to run after a run in which the
\* first segment has a store and the second fetched nothing.
C22_Witness ==
    /\ pc = "combine"
    /\ delays = <<2, 2>>
    /\ store[1].exists
    /\ ~store[2].exists
    /\ outcome = "nodata"

\* C24: the number of new rows an update_segment call reports is the number
\* of rows by which it made the store grow.
C24_ReportedIsGrowth ==
    (pc = "sleep" /\ outcome = "written") =>
        reported = Len(store[i].lines) - Len(before.lines)

\* the same for calls whose fetched rows are all of hours the store lacked
ReportedIsGrowthWithoutOverlap ==
    (/\ pc = "sleep"
     /\ outcome = "written"
     /\ \A k \in 1..Len(new_df.rows) :
            \A j \in 1..Len(before.lines) : new_df.rows[k].date # before.lines[j].date)
    => reported = Len(store[i].lines) - Len(before.lines)

(***************************************************************************)
(* Calendar arithmetic.  A date is <<year, month, day>>; a day number      *)
(* counts days from the date of PROJECT_START, so that minute 0 of the     *)
(* model's time is 2025-11-01T00:00Z.                                      *)
(***************************************************************************)
MinutesPerDay == 24 * MinutesPerHour

EpochDate == <<2025, 11, 1>>

FirstYear == EpochDate[1]

IsLeap(y) == (y % 4 = 0 /\ y % 100 # 0) \/ y % 400 = 0

DaysInYear(y) == IF IsLeap(y) THEN 366 ELSE 365

DaysInMonth(y, m) ==
    IF m = 2 THEN (IF IsLeap(y) THEN 29 ELSE 28)
    ELSE IF m \in {4, 6, 9, 11} THEN 30 ELSE 31

RECURSIVE DaysBeforeYear(_)
DaysBeforeYear(y) ==
    IF y = FirstYear THEN 0 ELSE DaysBeforeYear(y - 1) + DaysInYear(y - 1)

RECURSIVE DaysBeforeMonth(_, _)
DaysBeforeMonth(y, m) ==
    IF m = 1 THEN 0 ELSE DaysBeforeMonth(y, m - 1) + DaysInMonth(y, m - 1)

\* days from the first of January of FirstYear
Ordinal(d) == DaysBeforeYear(d[1]) + DaysBeforeMonth(d[1], d[2]) + (d[3] - 1)

DayNumber(d) == Ordinal(d) - Ordinal(EpochDate)

RECURSIVE MonthDayOf(_, _, _)
MonthDayOf(y, m, o) ==
    IF o < DaysInMonth(y, m) THEN <<y, m, o + 1>>
    ELSE MonthDayOf(y, m + 1, o - DaysInMonth(y, m))

RECURSIVE DateOfOrdinal(_, _)
DateOfOrdinal(y, o) ==
    IF o < DaysInYear(y) THEN MonthDayOf(y, 1, o)
    ELSE DateOfOrdinal(y + 1, o - DaysInYear(y))

DateOfDay(n) == DateOfOrdinal(FirstYear, n + Ordinal(EpochDate))

\* Monday is 0; 2025-11-01 is a Saturday
Weekday(n) == (n + 5) % 7

\* the midnight (UTC) that starts a date, in minutes
Midnight(d) == DayNumber(d) * MinutesPerDay

At(d, h) == Midnight(d) + h * MinutesPerHour

(***************************************************************************)
(* Europe/Brussels: UTC+1, and UTC+2 from 01:00Z of the last Sunday of     *)
(* March to 01:00Z of the last Sunday of October.                          *)
(***************************************************************************)
LastSunday(y, m) ==
    CHOOSE d \in 1..DaysInMonth(y, m) :
        /\ Weekday(DayNumber(<<y, m, d>>)) = 6
        /\ d + 7 > DaysInMonth(y, m)

DstStart(y) == At(<<y, 3, LastSunday(y, 3)>>, 1)

DstEnd(y) == At(<<y, 10, LastSunday(y, 10)>>, 1)

ZoneYears == 2025..2026

\* the summer time periods, [start, end)
DstPeriods == {<<DstStart(y), DstEnd(y)>> : y \in ZoneYears}

UtcOffset(u) ==
    IF \E p \in DstPeriods : p[1] <= u /\ u < p[2]
    THEN 2 * MinutesPerHour
    ELSE MinutesPerHour

\* the wall clock reading of an instant in a zone
WallClock(tz, u) == IF tz = TIMEZONE THEN u + UtcOffset(u) ELSE u

\* the instants a naive wall clock reading can stand for in a zone
Instants(tz, w) ==
    IF tz = TIMEZONE
    THEN {u \in {w - MinutesPerHour, w - 2 * MinutesPerHour} : WallClock(tz, u) = w}
    ELSE {w}

(***************************************************************************)
(* calendar_integration.py                                                 *)
(***************************************************************************)
BELGIAN_HOLIDAYS_2025_2026 ==
    << <<<<2025, 1, 1>>, "New Year's Day">>,
       <<<<2025, 4, 21>>, "Easter Monday">>,
       <<<<2025, 5, 1>>, "Labour Day">>,
       <<<<2025, 5, 29>>, "Ascension Day">>,
       <<<<2025, 6, 9>>, "Whit Monday">>,
       <<<<2025, 7, 21>>, "Belgian National Day">>,
       <<<<2025, 8, 15>>, "Assumption of Mary">>,
       <<<<2025, 11, 1>>, "All Saints' Day">>,
       <<<<2025, 11, 11>>, "Armistice Day">>,
       <<<<2025, 12, 25>>, "Christmas Day">>,
       <<<<2026, 1, 1>>, "New Year's Day">>,
       <<<<2026, 4, 6>>, "Easter Monday">>,
       <<<<2026, 5, 1>>, "Labour Day">>,
       <<<<2026, 5, 14>>, "Ascension Day">>,
       <<<<2026, 5, 25>>, "Whit Monday">>,
       <<<<2026, 7, 21>>, "Belgian National Day">>,
       <<<<2026, 8, 15>>, "Assumption of Mary">>,
       <<<<2026, 11, 1>>, "All Saints' Day">>,
       <<<<2026, 11, 11>>, "Armistice Day">>,
       <<<<2026, 12, 25>>, "Christmas Day">> >>

SCHOOL_VACATIONS_2025_2026 ==
    << <<<<2025, 2, 24>>, <<2025, 3, 2>>, "Carnival Break">>,
       <<<<2025, 4, 14>>, <<2025, 4, 27>>, "Easter Break">>,
       <<<<2025, 7, 1>>, <<2025, 8, 31>>, "Summer Break">>,
       <<<<2025, 11, 3>>, <<2025, 11, 9>>, "Autumn Break">>,
       <<<<2025, 12, 22>>, <<2026, 1, 5>>, "Christmas Break">>,
       <<<<2026, 2, 16>>, <<2026, 2, 22>>, "Carnival Break">>,
       <<<<2026, 4, 6>>, <<2026, 4, 19>>, "Easter Break">>,
       <<<<2026, 7, 1>>, <<2026, 8, 31>>, "Summer Break">> >>

\* pd.to_datetime of a date string: the naive midnight of that date
to_datetime(d) == Midnight(d)

\* Mutant: the 2025 holidays are listed twice.
create_holidays_dataframe_Repeated ==
    [tz |-> "naive",
     rows |-> [k \in 1..(Len(BELGIAN_HOLIDAYS_2025_2026) + 10) |->
                  LET h == BELGIAN_HOLIDAYS_2025_2026[
                               IF k <= Len(BELGIAN_HOLIDAYS_2025_2026)
                               THEN k ELSE k - Len(BELGIAN_HOLIDAYS_2025_2026)]
                  IN  [date |-> to_datetime(h[1]), holiday_name |-> h[2],
                       is_holiday |-> TRUE]]]

create_holidays_dataframe ==
    [tz |-> "naive",
     rows |-> [k \in 1..Len(BELGIAN_HOLIDAYS_2025_2026) |->
                  [date |-> to_datetime(BELGIAN_HOLIDAYS_2025_2026[k][1]),
                   holiday_name |-> BELGIAN_HOLIDAYS_2025_2026[k][2],
                   is_holiday |-> TRUE]]]

\* the loop "while current <= end", one row a day
RECURSIVE VacationDays_SkipEnd(_, _, _)
VacationDays_SkipEnd(current, end, name) ==
    IF current < end
    THEN <<[date |-> current, vacation_name |-> name, is_school_vacation |-> TRUE]>>
             \o VacationDays_SkipEnd(current + MinutesPerDay, end, name)
    ELSE <<>>

\* Mutant: current is advanced before the row is emitted.
RECURSIVE VacationDays_DayAfter(_, _, _)
VacationDays_DayAfter(current, end, name) ==
    IF current <= end
    THEN <<[date |-> current + MinutesPerDay, vacation_name |-> name,
            is_school_vacation |-> TRUE]>>
             \o VacationDays_DayAfter(current + MinutesPerDay, end, name)
    ELSE <<>>

RECURSIVE VacationDays(_, _, _)
VacationDays(current, end, name) ==
    IF current <= end
    THEN <<[date |-> current, vacation_name |-> name, is_school_vacation |-> TRUE]>>
             \o VacationDays(current + MinutesPerDay, end, name)
    ELSE <<>>

RECURSIVE VacationRows(_)
VacationRows(k) ==
    IF k > Len(SCHOOL_VACATIONS_2025_2026) THEN <<>>
    ELSE VacationDays(to_datetime(SCHOOL_VACATIONS_2025_2026[k][1]),
                      to_datetime(SCHOOL_VACATIONS_2025_2026[k][2]),
                      SCHOOL_VACATIONS_2025_2026[k][3])
             \o VacationRows(k + 1)

create_school_vacations_dataframe == [tz |-> "naive", rows |-> VacationRows(1)]

\* Mutant: the calendar day of the instant in UTC.
date_only_Utc(tz, t) == t \div MinutesPerDay

\* Series.dt.date: the calendar day of the reading, local for an aware column
date_only(tz, t) == WallClock(tz, t) \div MinutesPerDay

\* a cell that a left merge may leave empty
NA(x) == [nan |-> TRUE, v |-> x]

Cell(x) == [nan |-> FALSE, v |-> x]

fillna(c, x) == IF c.nan THEN x ELSE c.v

RECURSIVE Flatten(_)
Flatten(ss) == IF ss = <<>> THEN <<>> ELSE Head(ss) \o Flatten(Tail(ss))

\* a set of row numbers, in ascending order
RECURSIVE InOrder(_)
InOrder(S) ==
    IF S = {} THEN <<>>
    ELSE LET m == CHOOSE x \in S : \A y \in S : x <= y
         IN  <<m>> \o InOrder(S \ {m})

\* the rows of a table whose date falls on a day, in the table's order
RowsOn(table, day) ==
    LET at == InOrder({k \in 1..Len(table.rows) :
                          date_only(table.tz, table.rows[k].date) = day})
    IN  [j \in 1..Len(at) |-> table.rows[at[j]]]

\* left.merge(holidays_df[[date_only, holiday_name, is_holiday]], on="date_only", how="left")
MergeHolidays(left, holidays) ==
    Flatten([k \in 1..Len(left) |->
        LET hits == RowsOn(holidays, left[k].date_only)
        IN  IF hits = <<>>
            THEN <<left[k] @@ [holiday_name |-> NA(""), is_holiday |-> NA(FALSE)]>>
            ELSE [j \in 1..Len(hits) |->
                     left[k] @@ [holiday_name |-> Cell(hits[j].holiday_name),
                                 is_holiday |-> Cell(hits[j].is_holiday)]]])

\* left.merge(vacations_df[[date_only, vacation_name, is_school_vacation]], on="date_only", how="left")
MergeVacations(left, vacations) ==
    Flatten([k \in 1..Len(left) |->
        LET hits == RowsOn(vacations, left[k].date_only)
        IN  IF hits = <<>>
            THEN <<left[k] @@ [vacation_name |-> NA(""), is_school_vacation |-> NA(FALSE)]>>
            ELSE [j \in 1..Len(hits) |->
                     left[k] @@ [vacation_name |-> Cell(hits[j].vacation_name),
                                 is_school_vacation |-> Cell(hits[j].is_school_vacation)]]])

\* the frame with the temporary column, as the caller's frame is left
WithDateOnly(df) ==
    [tz |-> df.tz,
     rows |-> [k \in 1..Len(df.rows) |->
                  df.rows[k] @@ [date_only |-> date_only(df.tz, df.rows[k].date)]]]

DropDateOnly(r) == [f \in (DOMAIN r) \ {"date_only"} |-> r[f]]

add_calendar_features_to_traffic(df) ==
    LET holidays_df == create_holidays_dataframe
        vacations_df == create_school_vacations_dataframe
        keyed == WithDateOnly(df).rows
        m1 == MergeHolidays(keyed, holidays_df)
        m2 == MergeVacations(m1, vacations_df)
    IN  [tz |-> df.tz,
         rows |-> [k \in 1..Len(m2) |->
                      DropDateOnly(
                          [m2[k] EXCEPT !.is_holiday = fillna(@, FALSE),
                                        !.is_school_vacation = fillna(@, FALSE),
                                        !.holiday_name = fillna(@, ""),
                                        !.vacation_name = fillna(@, "")])]]

(***************************************************************************)
(* add_calendar_features_to_traffic applied to frames of a few rows: one   *)
(* row for every day of 2025 and 2026 at three hours, and every sequence   *)
(* of rows at the sample dates.                                            *)
(***************************************************************************)
SyncAtRest ==
    /\ clock = 0
    /\ apiInclusive = FALSE
    /\ upstream = [s \in Segs |-> {}]
    /\ store = [s \in Segs |-> NoFile]
    /\ raw = NoFile
    /\ pc = "off"
    /\ i = 1
    /\ existing = EmptyFrame
    /\ window = [start |-> 0, end |-> 0, none |-> TRUE]
    /\ calledAt = 0
    /\ attempt = 1
    /\ calls = 0
    /\ waits = <<>>
    /\ new_df = EmptyFrame
    /\ outcome = "none"
    /\ reported = 0
    /\ before = NoFile
    /\ status = [s \in Segs |-> "never"]
    /\ prevStatus = "never"
    /\ dirty = FALSE
    /\ delays = <<>>

MaxCalendarRows == 2

CalendarDays == DayNumber(<<2025, 1, 1>>)..DayNumber(<<2026, 12, 31>>)

CalendarHours == {0, 12, 23}

SampleDates ==
    {<<2025, 12, 25>>, <<2025, 7, 15>>, <<2025, 3, 15>>, <<2025, 12, 22>>,
     <<2026, 1, 5>>, <<2026, 1, 6>>, <<2026, 4, 6>>}

TrafficRow(t) == [date |-> t, car |-> Num(1)]

CalendarInputs ==
    LET one == {<<TrafficRow(n * MinutesPerDay + h * MinutesPerHour)>> :
                    n \in CalendarDays, h \in CalendarHours}
        more == UNION {[1..n -> {TrafficRow(At(d, 12)) : d \in SampleDates}] :
                          n \in 2..MaxCalendarRows}
    IN  {[tz |-> z, rows |-> r] : z \in {"naive", TIMEZONE}, r \in one \cup more}

ApplyCalendar ==
    /\ ipc = "calendar_inputs"
    /\ ipc' = "enriched"
    /\ given' = [given EXCEPT !.traffic = traffic_df]
    /\ traffic_df' = WithDateOnly(traffic_df)
    /\ merged_df' = add_calendar_features_to_traffic(traffic_df)
    /\ UNCHANGED <<weather_df, error>>
    /\ UNCHANGED syncVars
    /\ UNCHANGED concVars
    /\ UNCHANGED runVars

CalendarInit ==
    /\ SyncAtRest
    /\ ipc = "calendar_inputs"
    /\ traffic_df \in CalendarInputs
    /\ given = [traffic |-> EmptyTable, weather |-> EmptyTable]
    /\ weather_df = EmptyTable
    /\ merged_df = EmptyTable
    /\ error = "none"
    /\ ConcDefaults
    /\ RunDefaults

CalendarNext == ApplyCalendar

SpecCalendar == CalendarInit /\ [][CalendarNext]_vars

DateLeq(a, b) ==
    \/ a[1] < b[1]
    \/ a[1] = b[1] /\ a[2] < b[2]
    \/ a[1] = b[1] /\ a[2] = b[2] /\ a[3] <= b[3]

ListedHolidays(d) ==
    {k \in 1..Len(BELGIAN_HOLIDAYS_2025_2026) : BELGIAN_HOLIDAYS_2025_2026[k][1] = d}

CoveringVacations(d) ==
    {k \in 1..Len(SCHOOL_VACATIONS_2025_2026) :
        /\ DateLeq(SCHOOL_VACATIONS_2025_2026[k][1], d)
        /\ DateLeq(d, SCHOOL_VACATIONS_2025_2026[k][2])}

\* C9: every row given to add_calendar_features_to_traffic comes back once,
\* with is_holiday true exactly when its date is listed in the holiday table,
\* is_school_vacation true exactly when its date lies in a vacation range
\* (both endpoints included), the label of the table entry when the flag is
\* true and the empty label when it is false.
C9_CalendarFlags ==
    ipc = "enriched" =>
        LET in == given.traffic
            out == merged_df
        IN  /\ Len(out.rows) = Len(in.rows)
            /\ \A k \in 1..Len(in.rows) :
                  LET d == DateOfDay(date_only(in.tz, in.rows[k].date))
                      r == out.rows[k]
                      hs == ListedHolidays(d)
                      vs == CoveringVacations(d)
                  IN  /\ r.date = in.rows[k].date
                      /\ r.is_holiday = (hs # {})
                      /\ r.is_school_vacation = (vs # {})
                      /\ IF hs = {} THEN r.holiday_name = ""
                         ELSE \E h \in hs : r.holiday_name = BELGIAN_HOLIDAYS_2025_2026[h][2]
                      /\ IF vs = {} THEN r.vacation_name = ""
                         ELSE \E v \in vs : r.vacation_name = SCHOOL_VACATIONS_2025_2026[v][3]

\* C9 witness: a frame of two rows came back, the first on the last day of the
\* Christmas break (2026-01-05) flagged as vacation and not as holiday, the
\* second on 2025-03-15 with both flags false and empty labels.
C9_Witness ==
    /\ ipc = "enriched"
    /\ Len(merged_df.rows) = 2
    /\ DateOfDay(date_only(merged_df.tz, merged_df.rows[1].date)) = <<2026, 1, 5>>
    /\ merged_df.rows[1].is_school_vacation
    /\ ~merged_df.rows[1].is_holiday
    /\ DateOfDay(date_only(merged_df.tz, merged_df.rows[2].date)) = <<2025, 3, 15>>
    /\ ~merged_df.rows[2].is_school_vacation
    /\ ~merged_df.rows[2].is_holiday
    /\ merged_df.rows[2].holiday_name = ""
    /\ merged_df.rows[2].vacation_name = ""

\* the days of a configured range, first and last included
RangeDays(k) ==
    DayNumber(SCHOOL_VACATIONS_2025_2026[k][1])..DayNumber(SCHOOL_VACATIONS_2025_2026[k][2])

RECURSIVE TotalRangeDays(_)
TotalRangeDays(k) ==
    IF k = 0 THEN 0 ELSE TotalRangeDays(k - 1) + Cardinality(RangeDays(k))

VacationTableAsClaimed ==
    LET t == create_school_vacations_dataframe.rows
        ranges == 1..Len(SCHOOL_VACATIONS_2025_2026)
        rowsOf(k, n) == {j \in 1..Len(t) :
                            /\ t[j].date = n * 1440
                            /\ t[j].vacation_name = SCHOOL_VACATIONS_2025_2026[k][3]}
    IN  /\ \A k \in ranges : \A n \in RangeDays(k) : Cardinality(rowsOf(k, n)) = 1
        /\ \A k \in ranges :
              Cardinality(UNION {rowsOf(k, n) : n \in RangeDays(k)})
                  = DayNumber(SCHOOL_VACATIONS_2025_2026[k][2])
                        - DayNumber(SCHOOL_VACATIONS_2025_2026[k][1]) + 1
        /\ Len(t) = TotalRangeDays(Len(SCHOOL_VACATIONS_2025_2026))
        /\ \A j \in 1..Len(t) :
              /\ t[j].is_school_vacation = TRUE
              /\ \E k \in ranges : \E n \in RangeDays(k) : j \in rowsOf(k, n)

\* C23: the table create_school_vacations_dataframe builds holds, for each
\* configured range, one row for every day from its start to its end (both
\* included, end - start + 1 rows, also across the turn of the year), flagged
\* and named after the range, and no row for a day outside every range; a
\* traffic row is joined with the row of its day.
C23_VacationExpansion ==
    /\ VacationTableAsClaimed
    /\ (ipc = "enriched" /\ Len(merged_df.rows) = 1) =>
           LET r == merged_df.rows[1]
               day == date_only(merged_df.tz, r.date)
           IN  r.is_school_vacation =
                   (\E k \in 1..Len(SCHOOL_VACATIONS_2025_2026) : day \in RangeDays(k))

\* C23 witness: a row of 2026-01-01, inside the range that starts in 2025
\* and ends in 2026, was joined with the Christmas Break row of that day, and
\* that range has 15 rows.
C23_Witness ==
    /\ ipc = "enriched"
    /\ Len(merged_df.rows) = 1
    /\ merged_df.tz = "naive"
    /\ merged_df.rows[1].date = At(<<2026, 1, 1>>, 12)
    /\ merged_df.rows[1].is_school_vacation
    /\ merged_df.rows[1].vacation_name = "Christmas Break"
    /\ Cardinality(RangeDays(5)) = 15

\* a calendar table has at most one row a day
OneRowPerDay(table) ==
    \A a, b \in 1..Len(table.rows) : table.rows[a].date = table.rows[b].date => a = b

CalendarTablesUnique ==
    /\ OneRowPerDay(create_holidays_dataframe)
    /\ OneRowPerDay(create_school_vacations_dataframe)

\* C27: add_calendar_features_to_traffic returns as many rows as it was
\* given, each with the timestamp and the count of the row given in its
\* place; a row of 2025-12-25, a listed holiday inside a vacation range, comes
\* back once with both flags true; each of the two calendar tables has at
\* most one row a day.
C27_CalendarPreservesRows ==
    /\ CalendarTablesUnique
    /\ ipc = "enriched" =>
          /\ Len(merged_df.rows) = Len(given.traffic.rows)
          /\ \A k \in 1..Len(given.traffic.rows) :
                /\ merged_df.rows[k].date = given.traffic.rows[k].date
                /\ merged_df.rows[k].car = given.traffic.rows[k].car
                /\ DateOfDay(date_only(given.traffic.tz, given.traffic.rows[k].date))
                       = <<2025, 12, 25>>
                   => (merged_df.rows[k].is_holiday /\ merged_df.rows[k].is_school_vacation)

\* C27 witness: a frame of two rows, both of 2025-12-25, came back as two
\* rows with both flags true.
C27_Witness ==
    /\ ipc = "enriched"
    /\ Len(given.traffic.rows) = 2
    /\ Len(merged_df.rows) = 2
    /\ \A k \in 1..2 :
          /\ merged_df.rows[k].date = At(<<2025, 12, 25>>, 12)
          /\ merged_df.rows[k].is_holiday
          /\ merged_df.rows[k].is_school_vacation
          /\ merged_df.rows[k].holiday_name = "Christmas Day"
          /\ merged_df.rows[k].vacation_name = "Christmas Break"

(***************************************************************************)
(* weather_integration.py: merge_traffic_weather                           *)
(***************************************************************************)
\* Series.dt.tz_localize(tz) with pandas' defaults ambiguous="raise" and
\* nonexistent="raise": the errors the readings call for, and the column of
\* instants when there is none
LocalizeError(tz, w) ==
    IF Cardinality(Instants(tz, w)) > 1 THEN "AmbiguousTimeError"
    ELSE IF Instants(tz, w) = {} THEN "NonExistentTimeError"
    ELSE "none"

tz_localize(df, tz) ==
    [errors |-> {LocalizeError(tz, df.rows[k].date) : k \in 1..Len(df.rows)} \ {"none"},
     df |-> [tz |-> tz,
             rows |-> [k \in 1..Len(df.rows) |->
                          IF LocalizeError(tz, df.rows[k].date) = "none"
                          THEN [df.rows[k] EXCEPT
                                   !.date = CHOOSE u \in Instants(tz, @) : TRUE]
                          ELSE df.rows[k]]]]

\* Series.dt.tz_convert(tz): the same instants, read in another zone
tz_convert(df, tz) == [df EXCEPT !.tz = tz]

HasDuplicateDates(df) ==
    \E a, b \in 1..Len(df.rows) : a # b /\ df.rows[a].date = df.rows[b].date

\* the columns a weather row brings to the merge, empty when there is no such row
WeatherCells(hits) ==
    IF hits = <<>> THEN [temperature_c |-> NaN, precipitation_mm |-> NaN]
    ELSE [temperature_c |-> hits[1].temperature_c,
          precipitation_mm |-> hits[1].precipitation_mm]

RowsAt(table, t) ==
    LET at == InOrder({k \in 1..Len(table.rows) : table.rows[k].date = t})
    IN  [j \in 1..Len(at) |-> table.rows[at[j]]]

\* Mutant: the merge does not check that the keys are unique.
pd_merge_NoValidate(left, right) ==
    [error |-> "none",
     df |-> [tz |-> left.tz,
             rows |-> [k \in 1..Len(left.rows) |->
                          left.rows[k] @@
                              WeatherCells(RowsAt(right, left.rows[k].date))]]]

\* pd.merge(left, right, on="date", how="left", validate="1:1")
pd_merge(left, right) ==
    IF HasDuplicateDates(left) \/ HasDuplicateDates(right)
    THEN [error |-> "MergeError", df |-> EmptyTable]
    ELSE [error |-> "none",
          df |-> [tz |-> left.tz,
                  rows |-> [k \in 1..Len(left.rows) |->
                               left.rows[k] @@
                                   WeatherCells(RowsAt(right, left.rows[k].date))]]]

\* the outcomes of merge_traffic_weather(traffic, weather): the exception, the
\* two frames as the call leaves them, and the frame returned
merge_traffic_weather(traffic, weather) ==
    LET t1 == IF traffic.tz = "naive" THEN tz_localize(traffic, "UTC").df ELSE traffic
        wl == tz_localize(weather, TIMEZONE)
    IN  IF weather.tz = "naive" /\ wl.errors # {}
        THEN {[error |-> e, traffic |-> t1, weather |-> weather, merged |-> EmptyTable] :
                  e \in wl.errors}
        ELSE LET w1 == IF weather.tz = "naive" THEN wl.df ELSE weather
                 t2 == tz_convert(t1, TIMEZONE)
                 w2 == tz_convert(w1, TIMEZONE)
                 m == pd_merge(t2, w2)
             IN  {[error |-> m.error, traffic |-> t2, weather |-> w2, merged |-> m.df]}

(***************************************************************************)
(* merge_traffic_weather applied to frames of a few rows: each hour of the *)
(* two days of 2026 on which Europe/Brussels changes its offset, and       *)
(* tables of rows at the key hours.                                        *)
(***************************************************************************)
MaxTraffic == 2

MaxWeather == 2

TransitionDates == {<<2026, 3, 29>>, <<2026, 10, 25>>}

TransitionHours == {At(d, h) : d \in TransitionDates, h \in 0..23}

KeyInstants ==
    {At(<<2026, 3, 29>>, 0), At(<<2026, 3, 29>>, 1), At(<<2026, 10, 25>>, 0),
     At(<<2026, 10, 25>>, 1), At(<<2025, 12, 24>>, 23), At(<<2025, 11, 1>>, 0)}

\* the reading 02:00 of 2026-03-29, which no instant has
SkippedWall == At(<<2026, 3, 29>>, 2)

Walls(U) == {WallClock(TIMEZONE, u) : u \in U}

\* the temperature of a weather row: the hour of the day of its reading
\* and its precipitation: 1 mm at the odd hours, none at the even ones
WeatherRow(w) ==
    [date |-> w,
     temperature_c |-> Num((w \div MinutesPerHour) % 24),
     precipitation_mm |-> Num((w \div MinutesPerHour) % 2)]

Ascending(S, n) == {r \in [1..n -> S] : \A a, b \in 1..n : a < b => r[a] <= r[b]}

StrictlyAscending(S, n) == {r \in [1..n -> S] : \A a, b \in 1..n : a < b => r[a] < r[b]}

TrafficInputs ==
    LET dates == {<<u>> : u \in TransitionHours}
                     \cup UNION {Ascending(KeyInstants, n) : n \in 1..MaxTraffic}
    IN  {[tz |-> z, rows |-> [k \in 1..Len(r) |-> TrafficRow(r[k])]] :
            z \in {"naive", "UTC"}, r \in dates}

WeatherInputs ==
    LET dates == {<<w>> : w \in Walls(TransitionHours) \cup {SkippedWall}}
                     \cup UNION {StrictlyAscending(Walls(KeyInstants) \cup {SkippedWall}, n) :
                                     n \in 0..MaxWeather}
    IN  {[tz |-> "naive", rows |-> [k \in 1..Len(r) |-> WeatherRow(r[k])]] : r \in dates}

ApplyMerge ==
    /\ ipc = "merge_inputs"
    /\ \E o \in merge_traffic_weather(traffic_df, weather_df) :
          /\ ipc' = IF o.error = "none" THEN "merged" ELSE "raised"
          /\ error' = o.error
          /\ traffic_df' = o.traffic
          /\ weather_df' = o.weather
          /\ merged_df' = o.merged
    /\ given' = [traffic |-> traffic_df, weather |-> weather_df]
    /\ UNCHANGED syncVars
    /\ UNCHANGED concVars
    /\ UNCHANGED runVars

MergeInit ==
    /\ SyncAtRest
    /\ ipc = "merge_inputs"
    /\ traffic_df \in TrafficInputs
    /\ weather_df \in WeatherInputs
    /\ given = [traffic |-> EmptyTable, weather |-> EmptyTable]
    /\ merged_df = EmptyTable
    /\ error = "none"
    /\ ConcDefaults
    /\ RunDefaults

MergeNext == ApplyMerge

SpecMerge == MergeInit /\ [][MergeNext]_vars

MergeCalled == ipc \in {"merged", "raised"}

\* C7: merge_traffic_weather reads a naive traffic timestamp as UTC and a
\* naive weather timestamp as Europe/Brussels local time and converts both to
\* Europe/Brussels; whenever the two denote the same instant, at any hour of
\* a calendar with daylight-saving transitions, they come out equal and the
\* traffic row is joined with that weather row.
C7_Normalization ==
    (/\ MergeCalled
     /\ given.traffic.tz = "naive" /\ given.weather.tz = "naive"
     /\ Len(given.traffic.rows) = 1 /\ Len(given.weather.rows) = 1
     /\ given.weather.rows[1].date = WallClock(TIMEZONE, given.traffic.rows[1].date))
    => /\ error = "none"
       /\ traffic_df.tz = TIMEZONE /\ weather_df.tz = TIMEZONE
       /\ traffic_df.rows[1].date = given.traffic.rows[1].date
       /\ weather_df.rows[1].date = traffic_df.rows[1].date
       /\ Len(merged_df.rows) = 1
       /\ merged_df.rows[1].temperature_c = given.weather.rows[1].temperature_c

\* the same, for the hours whose local reading stands for one instant only
NormalizationWhenUnambiguous ==
    (/\ MergeCalled
     /\ given.traffic.tz = "naive" /\ given.weather.tz = "naive"
     /\ Len(given.traffic.rows) = 1 /\ Len(given.weather.rows) = 1
     /\ given.weather.rows[1].date = WallClock(TIMEZONE, given.traffic.rows[1].date)
     /\ Cardinality(Instants(TIMEZONE, given.weather.rows[1].date)) = 1)
    => /\ error = "none"
       /\ traffic_df.tz = TIMEZONE /\ weather_df.tz = TIMEZONE
       /\ weather_df.rows[1].date = traffic_df.rows[1].date
       /\ Len(merged_df.rows) = 1
       /\ merged_df.rows[1].temperature_c = given.weather.rows[1].temperature_c

\* the weather rows of a table whose reading can stand for an instant
Denoting(weather, u) ==
    {j \in 1..Len(weather.rows) : u \in Instants(TIMEZONE, weather.rows[j].date)}

LeftJoinAsClaimed ==
    /\ error = "none"
    /\ Len(merged_df.rows) = Len(given.traffic.rows)
    /\ \A k \in 1..Len(given.traffic.rows) :
          LET u == given.traffic.rows[k].date
              js == Denoting(given.weather, u)
          IN  /\ merged_df.rows[k].date = u
              /\ merged_df.rows[k].car = given.traffic.rows[k].car
              /\ IF js = {} THEN merged_df.rows[k].temperature_c = NaN
                 ELSE \E j \in js :
                          merged_df.rows[k].temperature_c = given.weather.rows[j].temperature_c

\* C8: for every traffic table and weather table with unique timestamps,
\* merge_traffic_weather returns one merged row per traffic row, in which the
\* weather fields are those of the weather row of the same hour, or missing
\* (not zero) when there is none; weather rows without a traffic row add
\* nothing.
C8_LeftJoin ==
    (/\ MergeCalled
     /\ ~HasDuplicateDates(given.traffic)
     /\ ~HasDuplicateDates(given.weather))
    => LeftJoinAsClaimed

\* the same, for weather tables whose every reading stands for one instant
LeftJoinWhenLocalizable ==
    (/\ MergeCalled
     /\ ~HasDuplicateDates(given.traffic)
     /\ \A j \in 1..Len(given.weather.rows) :
            Cardinality(Instants(TIMEZONE, given.weather.rows[j].date)) = 1)
    => LeftJoinAsClaimed

(***************************************************************************)
(* Two invocations of update_segment for the first segment that main()     *)
(* does not order: each reads the store, fetches and writes in steps that  *)
(* may interleave, unless the caller serializes them.  The clock advances  *)
(* and the sensor delivers at any time.                                    *)
(***************************************************************************)
TheSegment == 1

\* what fetch_segment may return for a window: the report, or the empty frame
FetchResults(s, w) ==
    {EmptyFrame} \cup
        {DataFrame(data) : data \in Listings(Report(s, w.start, w.end)) \ {<<>>}}

\* the caller's discipline: one job at a time
MayBegin(p) ==
    serialized => \A q \in Procs : procs[q].pc \in {"ready", "done"}

\* existing = get_existing_df(path); start, end = get_time_window(existing)
CRead(p) ==
    /\ procs[p].pc = "ready"
    /\ MayBegin(p)
    /\ LET df == get_existing_df(store[TheSegment])
           w == get_time_window(df, clock)
       IN  procs' = [procs EXCEPT ![p] =
                        [pc |-> IF w.none THEN "done" ELSE "read",
                         existing |-> df, window |-> w, new_df |-> EmptyFrame]]
    /\ UNCHANGED <<serialized, persisted>>
    /\ UNCHANGED syncVars
    /\ UNCHANGED integVars

\* new_df = fetch_segment(...); return if it is empty
CFetch(p) ==
    /\ procs[p].pc = "read"
    /\ \E df \in FetchResults(TheSegment, procs[p].window) :
          procs' = [procs EXCEPT ![p].new_df = df,
                                 ![p].pc = IF IsEmpty(df) THEN "done" ELSE "fetched"]
    /\ UNCHANGED <<serialized, persisted>>
    /\ UNCHANGED syncVars
    /\ UNCHANGED integVars

\* concat, drop_duplicates, sort_values, to_csv
CWrite(p) ==
    /\ procs[p].pc = "fetched"
    /\ LET combined == Merge(procs[p].existing, procs[p].new_df)
       IN  /\ store' = [store EXCEPT ![TheSegment] = to_csv(combined)]
           /\ persisted' = persisted \cup Dates(combined.rows)
    /\ procs' = [procs EXCEPT ![p].pc = "done"]
    /\ UNCHANGED serialized
    /\ UNCHANGED <<clock, apiInclusive, upstream, raw, pc, i, existing, window,
                   calledAt, attempt, calls, waits, new_df, outcome, reported,
                   before, status, prevStatus, dirty>>
    /\ UNCHANGED delays
    /\ UNCHANGED integVars

CTick ==
    /\ clock + ClockStep <= MaxClock
    /\ clock' = clock + ClockStep
    /\ UNCHANGED <<apiInclusive, upstream, store, raw, pc, i, existing, window,
                   calledAt, attempt, calls, waits, new_df, outcome, reported,
                   before, status, prevStatus, dirty>>
    /\ UNCHANGED delays
    /\ UNCHANGED integVars
    /\ UNCHANGED concVars

CPublish ==
    /\ Cardinality(upstream[TheSegment]) < MaxPublished
    /\ \E d \in Hours, v \in Counts :
          /\ d + MinutesPerHour <= clock
          /\ [date |-> d, val |-> v] \notin upstream[TheSegment]
          /\ upstream' = [upstream EXCEPT ![TheSegment] = @ \cup {[date |-> d, val |-> v]}]
    /\ UNCHANGED <<clock, apiInclusive, store, raw, pc, i, existing, window,
                   calledAt, attempt, calls, waits, new_df, outcome, reported,
                   before, status, prevStatus, dirty>>
    /\ UNCHANGED delays
    /\ UNCHANGED integVars
    /\ UNCHANGED concVars

ConcInit ==
    /\ SyncAtRest
    /\ IntegDefaults
    /\ procs = [p \in Procs |-> [pc |-> "ready", existing |-> EmptyFrame,
                                  window |-> NoWindow, new_df |-> EmptyFrame]]
    /\ serialized \in BOOLEAN
    /\ persisted = {}

ConcNext ==
    \/ \E p \in Procs : CRead(p)
    \/ \E p \in Procs : CFetch(p)
    \/ \E p \in Procs : CWrite(p)
    \/ CTick
    \/ CPublish

SpecConcurrent == ConcInit /\ [][ConcNext]_vars

\* C20: when the two invocations are serialized, every timestamp an
\* invocation has written is in the store; when they interleave so that both
\* read the store before either writes, the store can end without a row that
\* one of them had written (the witness).
C20_SerializedKeepsRows ==
    serialized => persisted \subseteq Dates(store[TheSegment].lines)

\* C20 witness: both invocations read the same store before either wrote, both
\* wrote, and the store lacks a timestamp that one of them had written.
C20_Witness ==
    /\ ~serialized
    /\ \A p \in Procs : procs[p].pc = "done" /\ ~IsEmpty(procs[p].new_df)
    /\ procs[1].existing = procs[2].existing
    /\ \E d \in persisted : d \notin Dates(store[TheSegment].lines)

(***************************************************************************)
(* update_segment from the return of fetch_segment on, applied to a store  *)
(* and a fetched frame of a few rows each: the counts of the two may       *)
(* differ, the fetched rows come in any order and may repeat an hour.      *)
(***************************************************************************)
RevisedCounts == {1, 2}

AnyRows == SeqsUpTo([date : Hours, val : RevisedCounts], MaxRows) \ {<<>>}

\* a store as update_segment leaves it: one row an hour, ascending
StoredFrames ==
    {EmptyFrame} \cup
        {DataFrame(q) : q \in {r \in AnyRows :
                                  \A a, b \in 1..Len(r) : a < b => r[a].date < r[b].date}}

FetchedFrames == {DataFrame(q) : q \in AnyRows}

ApplyAfterFetch ==
    /\ pc = "fetched"
    /\ AfterFetch("ok", new_df)
    /\ UNCHANGED <<clock, apiInclusive, upstream, raw, i, existing, window,
                   calledAt, attempt, calls, waits, before, delays>>
    /\ UNCHANGED integVars
    /\ UNCHANGED concVars

UpdateInit ==
    /\ existing \in StoredFrames
    /\ new_df \in FetchedFrames
    /\ pc = "fetched"
    /\ i = 1
    /\ store = [s \in Segs |-> IF s = 1 /\ ~IsEmpty(existing)
                                THEN to_csv(existing) ELSE NoFile]
    /\ before = store[1]
    /\ clock = 0
    /\ apiInclusive = FALSE
    /\ upstream = [s \in Segs |-> {}]
    /\ raw = NoFile
    /\ window = [start |-> 0, end |-> 0, none |-> FALSE]
    /\ calledAt = 0
    /\ attempt = 1
    /\ calls = 1
    /\ waits = <<>>
    /\ outcome = "none"
    /\ reported = 0
    /\ status = [s \in Segs |-> "never"]
    /\ prevStatus = "never"
    /\ dirty = FALSE
    /\ delays = <<>>
    /\ IntegDefaults
    /\ ConcDefaults

UpdateNext == ApplyAfterFetch

SpecUpdate == UpdateInit /\ [][UpdateNext]_vars

\* C25: after update_segment has merged a fetched frame into the store, the
\* store holds one row for every hour of either, in ascending order; the row
\* of an hour the store already had is the stored row, not the fetched one,
\* and the row of any other hour is the first fetched row of that hour, so
\* the store is determined by the two inputs.
C25_FirstWriteWins ==
    (pc = "sleep" /\ outcome = "written") =>
        LET lines == store[i].lines
            old == existing.rows
            new == new_df.rows
        IN  /\ \A a, b \in 1..Len(lines) : a < b => lines[a].date < lines[b].date
            /\ {lines[k].date : k \in 1..Len(lines)} =
                   {old[k].date : k \in 1..Len(old)} \cup {new[k].date : k \in 1..Len(new)}
            /\ \A k \in 1..Len(lines) :
                  IF \E j \in 1..Len(old) : old[j].date = lines[k].date
                  THEN \E j \in 1..Len(old) : old[j] = lines[k]
                  ELSE \E j \in 1..Len(new) :
                          /\ new[j] = lines[k]
                          /\ \A h \in 1..(j - 1) : new[h].date # lines[k].date

\* C25 witness: the fetched frame brought count 2 for an hour the store held
\* with count 1; the store still holds count 1.
C25_Witness ==
    /\ pc = "sleep"
    /\ outcome = "written"
    /\ existing.rows = <<[date |-> 0, val |-> 1]>>
    /\ new_df.rows = <<[date |-> 60, val |-> 1], [date |-> 0, val |-> 2]>>
    /\ store[i].lines = <<[date |-> 0, val |-> 1], [date |-> 60, val |-> 1]>>

(***************************************************************************)
(* The sync at a later hour, 03:15 UTC of the first day: the API holds     *)
(* some hours of the first segment and the store holds what earlier runs   *)
(* fetched of them, possibly without an hour that the sensor delivered     *)
(* late.  The script runs, and the sensor delivers, from there.            *)
(***************************************************************************)
LaterClock == 3 * MinutesPerHour + 15

Delivered == SUBSET [date : Hours, val : Counts]

\* the store files that hold rows of S, one an hour, ascending
StoresOf(S) ==
    {NoFile} \cup
        {to_csv(DataFrame([k \in 1..Len(q) |-> [date |-> q[k], val |-> 1]])) :
            q \in UNION {StrictlyAscending({r.date : r \in S}, n) : n \in 1..Cardinality(S)}}

LaterInit ==
    /\ clock = LaterClock
    /\ apiInclusive \in BOOLEAN
    /\ \E S \in Delivered :
          /\ upstream = [s \in Segs |-> IF s = 1 THEN S ELSE {}]
          /\ \E f \in StoresOf(S) :
                /\ store = [s \in Segs |-> IF s = 1 THEN f ELSE NoFile]
                /\ status = [s \in Segs |-> IF s = 1 /\ f.exists THEN "fresh" ELSE "never"]
    /\ raw = NoFile
    /\ pc = "idle"
    /\ i = 1
    /\ existing = EmptyFrame
    /\ window = [start |-> 0, end |-> 0, none |-> TRUE]
    /\ calledAt = 0
    /\ attempt = 1
    /\ calls = 0
    /\ waits = <<>>
    /\ new_df = EmptyFrame
    /\ outcome = "none"
    /\ reported = 0
    /\ before = NoFile
    /\ prevStatus = "never"
    /\ dirty = FALSE
    /\ delays = <<>>
    /\ IntegDefaults
    /\ ConcDefaults

LaterNext ==
    \/ StartMain
    \/ UpdateSegmentBegin
    \/ Post429
    \/ PostError
    \/ PostOk
    \/ PostNoReport
    \/ Sleep2
    \/ CombineRawData
    \/ Publish

SpecLater == LaterInit /\ [][LaterNext]_vars

\* C26: the window update_segment requests starts after every stored
\* timestamp, and an hour that a store lacks while it holds a later hour is
\* not added to it by any step: it stays absent, also when the API holds it.
C26_NoBackfill ==
    /\ [](pc = "post" =>
             \A k \in 1..Len(existing.rows) : existing.rows[k].date < window.start)
    /\ [][\A s \in Segs : \A d \in {0, 60, 120} :
             (/\ \A k \in 1..Len(store[s].lines) : store[s].lines[k].date # d
              /\ \E k \in 1..Len(store[s].lines) : store[s].lines[k].date > d)
             => \A k \in 1..Len(store'[s].lines) : store'[s].lines[k].date # d]_vars

\* C26 witness: the store held 01:00 and not 00:00, the API held both; a call
\* fetched 02:00 and wrote it, and the store is still without 00:00.
C26_Witness ==
    /\ pc = "sleep"
    /\ i = 1
    /\ outcome = "written"
    /\ window.start = 120
    /\ {before.lines[k].date : k \in 1..Len(before.lines)} = {60}
    /\ {store[1].lines[k].date : k \in 1..Len(store[1].lines)} = {60, 120}
    /\ [date |-> 0, val |-> 1] \in upstream[1]

(***************************************************************************)
(* weather_integration.py: validate_merged_data                            *)
(***************************************************************************)
SetMin(S) == CHOOSE m \in S : \A x \in S : m <= x

\* Series.min() and Series.max(): missing values are skipped, and the result
\* is missing when nothing is left
SeriesMin(S) == IF S = {} THEN NaN ELSE Num(SetMin(S))

SeriesMax(S) == IF S = {} THEN NaN ELSE Num(SetMax(S))

\* the values of a column that are not missing
Present(rows, col) == {rows[k][col].v : k \in {j \in 1..Len(rows) : ~rows[j][col].nan}}

\* Series.isna().sum(); the mutant counts a zero as missing
isna_sum_ZeroIsMissing(rows, col) ==
    Cardinality({k \in 1..Len(rows) : rows[k][col].nan \/ rows[k][col].v = 0})

isna_sum(rows, col) == Cardinality({k \in 1..Len(rows) : rows[k][col].nan})

\* df.duplicated(subset=["date"]).sum(): the rows whose date an earlier row has
duplicated_sum(rows) ==
    Cardinality({k \in 1..Len(rows) : \E j \in 1..(k - 1) : rows[j].date = rows[k].date})

validate_merged_data(df) ==
    [total_records |-> Len(df.rows),
     date_range |-> <<SeriesMin(Dates(df.rows)), SeriesMax(Dates(df.rows))>>,
     missing_weather |-> isna_sum(df.rows, "temperature_c"),
     missing_traffic |-> isna_sum(df.rows, "car"),
     duplicate_dates |-> duplicated_sum(df.rows),
     temperature_range |-> <<SeriesMin(Present(df.rows, "temperature_c")),
                             SeriesMax(Present(df.rows, "temperature_c"))>>,
     precipitation_days |->
         Cardinality({k \in 1..Len(df.rows) :
                         /\ ~df.rows[k].precipitation_mm.nan
                         /\ df.rows[k].precipitation_mm.v > 0})]

(***************************************************************************)
(* validate_merged_data applied to merged tables of a few rows.            *)
(***************************************************************************)
MaxMerged == 2

MergedRows ==
    [date : {0, MinutesPerHour},
     car : {NaN, Num(1)},
     temperature_c : {NaN, Num(0), Num(5)},
     precipitation_mm : {NaN, Num(0), Num(1)}]

MergedInputs == {[tz |-> TIMEZONE, rows |-> r] : r \in SeqsUpTo(MergedRows, MaxMerged)}

ApplyValidate ==
    /\ ipc = "validate_inputs"
    /\ ipc' = "validated"
    /\ validation' = validate_merged_data(merged_df)
    /\ UNCHANGED <<given, traffic_df, weather_df, merged_df, error>>
    /\ UNCHANGED <<entry, trafficFile, weatherApi, req, weatherFile, mergedFile, finalFile>>
    /\ UNCHANGED syncVars
    /\ UNCHANGED concVars

ValidateInit ==
    /\ SyncAtRest
    /\ ConcDefaults
    /\ ipc = "validate_inputs"
    /\ merged_df \in MergedInputs
    /\ given = [traffic |-> EmptyTable, weather |-> EmptyTable]
    /\ traffic_df = EmptyTable
    /\ weather_df = EmptyTable
    /\ error = "none"
    /\ RunDefaults

ValidateNext == ApplyValidate

SpecValidate == ValidateInit /\ [][ValidateNext]_vars

ReportAsClaimed ==
    ipc = "validated" =>
        LET rows == merged_df.rows
            n == Len(rows)
            withWeather == {k \in 1..n : rows[k].temperature_c = Num(0) \/ rows[k].temperature_c = Num(5)}
            withTraffic == {k \in 1..n : rows[k].car = Num(1)}
            days == {rows[k].date : k \in 1..n}
            v == validation
        IN  /\ v.total_records = n
            /\ v.missing_weather = n - Cardinality(withWeather)
            /\ v.missing_traffic = n - Cardinality(withTraffic)
            /\ v.duplicate_dates = n - Cardinality(days)
            /\ IF n = 0 THEN v.date_range = <<NaN, NaN>>
               ELSE /\ v.date_range[1].v \in days /\ v.date_range[2].v \in days
                    /\ \A d \in days : v.date_range[1].v <= d /\ d <= v.date_range[2].v
            /\ IF withWeather = {} THEN v.temperature_range = <<NaN, NaN>>
               ELSE /\ \E k \in withWeather : rows[k].temperature_c = v.temperature_range[1]
                    /\ \E k \in withWeather : rows[k].temperature_c = v.temperature_range[2]
                    /\ \A k \in withWeather :
                          /\ v.temperature_range[1].v <= rows[k].temperature_c.v
                          /\ rows[k].temperature_c.v <= v.temperature_range[2].v

\* C14: validate_merged_data leaves the merged table as it is (same rows,
\* values and order) and returns the report: record count, first and last
\* timestamp, rows without weather, rows without traffic, rows repeating a
\* timestamp, temperature range.
C14_ValidationReadOnly ==
    /\ [] ReportAsClaimed
    /\ [][ipc = "validate_inputs" => merged_df' = merged_df]_vars

\* C14 witness: a table of two rows of one timestamp was validated, one row
\* without weather, the other with temperature 0; the report counts one
\* duplicate and one row without weather.
C14_Witness ==
    /\ ipc = "validated"
    /\ Len(merged_df.rows) = 2
    /\ merged_df.rows[1].date = merged_df.rows[2].date
    /\ merged_df.rows[1].temperature_c = NaN
    /\ merged_df.rows[2].temperature_c = Num(0)
    /\ validation.duplicate_dates = 1
    /\ validation.missing_weather = 1

(***************************************************************************)
(* weather_integration.py: the integration run.  Run as a script, the file *)
(* calls the main() defined first (line 186) at line 227, before the       *)
(* second main() (line 231) is defined; imported, the module's main is the *)
(* second one.                                                             *)
(***************************************************************************)
TRAFFIC_FILE == "data/sintmartenslatemlaan_per-hour.csv"

\* Mutant: a missing file is read as an empty table.
load_traffic_data_Default(file) ==
    [error |-> "none", df |-> [tz |-> file.tz, rows |-> file.lines]]

load_traffic_data(file) ==
    IF ~file.exists
    THEN [error |-> "FileNotFoundError: Traffic file not found: " \o TRAFFIC_FILE,
          df |-> EmptyTable]
    ELSE [error |-> "none", df |-> [tz |-> file.tz, rows |-> file.lines]]

\* Timestamp.strftime("%Y-%m-%d"): the calendar day of the reading
strftime_date(tz, t) == DateOfDay(date_only(tz, t))

\* The hours of the archive that the model follows.
FollowedWalls == Walls(KeyInstants) \cup {SkippedWall}

\* The hourly readings the archive lists for the local days start..end: with
\* dst = "wall" every reading of the clock face once, with dst = "real" one
\* reading per hour that passed.
ArchiveHours(dst, start, end) ==
    LET inRange == {w \in FollowedWalls :
                       /\ DateLeq(start, DateOfDay(w \div MinutesPerDay))
                       /\ DateLeq(DateOfDay(w \div MinutesPerDay), end)}
        listed == InOrder(inRange)
    IN  IF dst = "wall" THEN listed
        ELSE Flatten([k \in 1..Len(listed) |->
                         [j \in 1..Cardinality(Instants(TIMEZONE, listed[k])) |-> listed[k]]])

fetch_weather_data(api, start_date, end_date) ==
    IF api.kind = "error" THEN [error |-> "RequestException", df |-> EmptyTable]
    ELSE IF api.kind = "nokey" THEN [error |-> "KeyError", df |-> EmptyTable]
    ELSE LET hours == ArchiveHours(api.dst, start_date, end_date)
         IN  [error |-> "none",
              df |-> [tz |-> "naive",
                      rows |-> [k \in 1..Len(hours) |-> WeatherRow(hours[k])]]]

table_to_csv(df) == [exists |-> TRUE, tz |-> df.tz, lines |-> df.rows]

Raise(e) ==
    /\ ipc' = "failed"
    /\ error' = e

\* traffic_df = load_traffic_data(); start_date, end_date
LoadTraffic ==
    /\ ipc = "start"
    /\ LET r == load_traffic_data(trafficFile)
       IN  IF r.error # "none"
           THEN /\ Raise(r.error)
                /\ UNCHANGED <<traffic_df, req>>
           ELSE /\ traffic_df' = r.df
                /\ IF r.df.rows = <<>>
                   THEN /\ Raise("ValueError")
                        /\ UNCHANGED req
                   ELSE /\ req' = [sent |-> FALSE,
                                   start_date |-> strftime_date(r.df.tz, SetMin(Dates(r.df.rows))),
                                   end_date |-> strftime_date(r.df.tz, SetMax(Dates(r.df.rows)))]
                        /\ ipc' = "loaded"
                        /\ UNCHANGED error
    /\ UNCHANGED <<given, weather_df, merged_df>>
    /\ UNCHANGED <<entry, trafficFile, weatherApi, validation, weatherFile, mergedFile, finalFile>>
    /\ UNCHANGED syncVars
    /\ UNCHANGED concVars

\* weather_df = fetch_weather_data(start_date, end_date)
FetchWeather ==
    /\ ipc = "loaded"
    /\ req' = [req EXCEPT !.sent = TRUE]
    /\ LET r == fetch_weather_data(weatherApi, req.start_date, req.end_date)
       IN  IF r.error # "none"
           THEN /\ Raise(r.error)
                /\ UNCHANGED weather_df
           ELSE /\ weather_df' = r.df
                /\ ipc' = "fetched"
                /\ UNCHANGED error
    /\ UNCHANGED <<given, traffic_df, merged_df>>
    /\ UNCHANGED <<entry, trafficFile, weatherApi, validation, weatherFile, mergedFile, finalFile>>
    /\ UNCHANGED syncVars
    /\ UNCHANGED concVars

\* weather_df.to_csv(WEATHER_FILE)
SaveWeather ==
    /\ ipc = "fetched"
    /\ weatherFile' = table_to_csv(weather_df)
    /\ ipc' = "weather_saved"
    /\ UNCHANGED <<given, traffic_df, weather_df, merged_df, error>>
    /\ UNCHANGED <<entry, trafficFile, weatherApi, req, validation, mergedFile, finalFile>>
    /\ UNCHANGED syncVars
    /\ UNCHANGED concVars

\* merged_df = merge_traffic_weather(traffic_df, weather_df)
MergeStep ==
    /\ ipc = "weather_saved"
    /\ \E o \in merge_traffic_weather(traffic_df, weather_df) :
          /\ IF o.error = "none"
             THEN ipc' = "merged" /\ UNCHANGED error
             ELSE Raise(o.error)
          /\ traffic_df' = o.traffic
          /\ weather_df' = o.weather
          /\ merged_df' = o.merged
    /\ given' = [traffic |-> traffic_df, weather |-> weather_df]
    /\ UNCHANGED runVars
    /\ UNCHANGED syncVars
    /\ UNCHANGED concVars

\* merged_df = add_calendar_features_to_traffic(merged_df): the second main() only
CalendarStep ==
    /\ ipc = "merged"
    /\ entry = "import"
    /\ merged_df' = add_calendar_features_to_traffic(merged_df)
    /\ ipc' = "calendar"
    /\ UNCHANGED <<given, traffic_df, weather_df, error>>
    /\ UNCHANGED runVars
    /\ UNCHANGED syncVars
    /\ UNCHANGED concVars

\* validation = validate_merged_data(merged_df)
ValidateStep ==
    /\ \/ ipc = "merged" /\ entry = "script"
       \/ ipc = "calendar"
    /\ validation' = validate_merged_data(merged_df)
    /\ ipc' = "validated"
    /\ UNCHANGED <<given, traffic_df, weather_df, merged_df, error>>
    /\ UNCHANGED <<entry, trafficFile, weatherApi, req, weatherFile, mergedFile, finalFile>>
    /\ UNCHANGED syncVars
    /\ UNCHANGED concVars

\* Mutant: the dataset is written as soon as it is built, before validation.
SaveMerged_BeforeValidation ==
    /\ \/ ipc = "merged" /\ entry = "script"
       \/ ipc = "calendar"
    /\ IF entry = "script"
       THEN mergedFile' = table_to_csv(merged_df) /\ UNCHANGED finalFile
       ELSE finalFile' = table_to_csv(merged_df) /\ UNCHANGED mergedFile
    /\ ipc' = "done"
    /\ UNCHANGED <<given, traffic_df, weather_df, merged_df, error>>
    /\ UNCHANGED <<entry, trafficFile, weatherApi, req, validation, weatherFile>>
    /\ UNCHANGED syncVars
    /\ UNCHANGED concVars

\* merged_df.to_csv(MERGED_FILE), or to_csv(FINAL_FILE) in the second main()
SaveMerged ==
    /\ ipc = "validated"
    /\ IF entry = "script"
       THEN mergedFile' = table_to_csv(merged_df) /\ UNCHANGED finalFile
       ELSE finalFile' = table_to_csv(merged_df) /\ UNCHANGED mergedFile
    /\ ipc' = "done"
    /\ UNCHANGED <<given, traffic_df, weather_df, merged_df, error>>
    /\ UNCHANGED <<entry, trafficFile, weatherApi, req, validation, weatherFile>>
    /\ UNCHANGED syncVars
    /\ UNCHANGED concVars

\* The dataset file an earlier run of the same main() left, when the traffic
\* file held the row of 2025-11-01 00:00 UTC only.
PreviousDataset(e) ==
    LET t == [tz |-> "UTC", rows |-> <<TrafficRow(0)>>]
        w == fetch_weather_data([kind |-> "ok", dst |-> "wall"],
                                strftime_date("UTC", 0), strftime_date("UTC", 0)).df
        m == (CHOOSE o \in merge_traffic_weather(t, w) : TRUE).merged
    IN  table_to_csv(IF e = "import" THEN add_calendar_features_to_traffic(m) ELSE m)

PreviousScriptDataset == PreviousDataset("script")

PreviousImportDataset == PreviousDataset("import")

TrafficFiles ==
    {NoTable} \cup
        {[exists |-> TRUE, tz |-> z, lines |-> [k \in 1..Len(r) |-> TrafficRow(r[k])]] :
            z \in {"naive", "UTC"},
            r \in UNION {Ascending(KeyInstants, n) : n \in 1..MaxTraffic}}

WeatherApis ==
    {[kind |-> "ok", dst |-> d] : d \in {"wall", "real"}}
        \cup {[kind |-> k, dst |-> "wall"] : k \in {"error", "nokey"}}

IntegrateInit ==
    /\ SyncAtRest
    /\ ConcDefaults
    /\ ipc = "start"
    /\ entry \in {"script", "import"}
    /\ trafficFile \in TrafficFiles
    /\ weatherApi \in WeatherApis
    /\ req = NoRequest
    /\ validation = NoReport
    /\ weatherFile = NoTable
    /\ mergedFile \in IF entry = "script" THEN {NoTable, PreviousScriptDataset} ELSE {NoTable}
    /\ finalFile \in IF entry = "import" THEN {NoTable, PreviousImportDataset} ELSE {NoTable}
    /\ given = [traffic |-> EmptyTable, weather |-> EmptyTable]
    /\ traffic_df = EmptyTable
    /\ weather_df = EmptyTable
    /\ merged_df = EmptyTable
    /\ error = "none"

IntegrateNext ==
    \/ LoadTraffic
    \/ FetchWeather
    \/ SaveWeather
    \/ MergeStep
    \/ CalendarStep
    \/ ValidateStep
    \/ SaveMerged

SpecIntegrate == IntegrateInit /\ [][IntegrateNext]_vars

\* C13: a traffic input with two rows of one timestamp does not stop the
\* run: the merge does not raise on it, and the run that completes reports
\* the duplicates in its validation report.
C13_DuplicatesDoNotBlock ==
    (trafficFile.exists /\ HasDuplicateDates([tz |-> trafficFile.tz, rows |-> trafficFile.lines]))
    => /\ error # "MergeError"
       /\ ipc = "done" => validation.duplicate_dates >= 1

\* C15: the table that merge_traffic_weather followed by
\* add_calendar_features_to_traffic returns has at most one record per
\* timestamp (the run is of one segment), all timestamps in Europe/Brussels.
C15_MergedUnique ==
    ipc \in {"calendar", "validated", "done"} /\ entry = "import" =>
        /\ merged_df.tz = "Europe/Brussels"
        /\ \A a, b \in 1..Len(merged_df.rows) :
              merged_df.rows[a].date = merged_df.rows[b].date => a = b

\* C15 witness: the calendar flags were added to a merged table of two rows,
\* the first on All Saints' Day.
C15_Witness ==
    /\ ipc = "calendar"
    /\ Len(merged_df.rows) = 2
    /\ merged_df.rows[1].is_holiday
    /\ ~merged_df.rows[2].is_holiday

\* C28: in the run that joins the calendar, the flags of a row are those of
\* the day its timestamp has in Europe/Brussels: a row of 2025-12-24 23:00
\* UTC, which is 2025-12-25 00:00 local time, is flagged as holiday, and the
\* day of the timestamp in UTC plays no part.
C28_CalendarDayIsLocal ==
    (ipc \in {"calendar", "validated", "done"} /\ entry = "import") =>
        /\ merged_df.tz = "Europe/Brussels"
        /\ \A k \in 1..Len(merged_df.rows) :
              LET r == merged_df.rows[k]
                  localDay == DateOfDay((r.date + UtcOffset(r.date)) \div 1440)
              IN  /\ r.is_holiday = (ListedHolidays(localDay) # {})
                  /\ r.is_school_vacation = (CoveringVacations(localDay) # {})

\* C28 witness: the run has persisted the row of 2025-12-24 23:00 UTC flagged
\* as Christmas Day.
C28_Witness ==
    /\ ipc = "done"
    /\ entry = "import"
    /\ finalFile.exists
    /\ \E k \in 1..Len(finalFile.lines) :
          /\ finalFile.lines[k].date = At(<<2025, 12, 24>>, 23)
          /\ finalFile.lines[k].is_holiday
          /\ finalFile.lines[k].holiday_name = "Christmas Day"

\* C29: in a run whose merge has returned, every traffic row has the weather
\* of its hour.
C29_WeatherCoversTraffic ==
    ipc \in {"merged", "calendar", "validated", "done"} =>
        \A k \in 1..Len(merged_df.rows) : ~merged_df.rows[k].temperature_c.nan

\* the same for the traffic rows whose day in Europe/Brussels is one of the
\* days requested from the archive
WeatherCoversRequestedDays ==
    ipc \in {"merged", "calendar", "validated", "done"} =>
        \A k \in 1..Len(merged_df.rows) :
            LET localDay == DateOfDay(date_only(TIMEZONE, merged_df.rows[k].date))
            IN  (DateLeq(req.start_date, localDay) /\ DateLeq(localDay, req.end_date))
                    => ~merged_df.rows[k].temperature_c.nan

\* C17: when the traffic store file is absent the run fails in
\* load_traffic_data with a file-not-found error that names the file; no
\* request is sent to the weather archive and no file is written (the
\* dataset files are absent, or as an earlier run left them).
C17_MissingFileSurfaced ==
    (ipc # "start" /\ ~trafficFile.exists) =>
        /\ ipc = "failed"
        /\ error = "FileNotFoundError: Traffic file not found: data/sintmartenslatemlaan_per-hour.csv"
        /\ ~req.sent
        /\ ~weatherFile.exists
        /\ mergedFile \in {NoTable, PreviousScriptDataset}
        /\ finalFile \in {NoTable, PreviousImportDataset}

\* C17 witness: a run without the traffic file has stopped.
C17_Witness ==
    /\ ipc = "failed"
    /\ ~trafficFile.exists
    /\ traffic_df.rows = <<>>

\* the weather half of C18: a response without the hourly arrays ends the run
\* with a KeyError before any file is written
WeatherSchemaErrorPropagates ==
    (weatherApi.kind = "nokey" /\ req.sent) =>
        /\ ipc = "failed"
        /\ error = "KeyError"
        /\ ~weatherFile.exists
        /\ mergedFile \in {NoTable, PreviousScriptDataset}
        /\ finalFile \in {NoTable, PreviousImportDataset}

HasCalendarFlags(file) ==
    /\ file.exists
    /\ \A k \in 1..Len(file.lines) :
          {"is_holiday", "is_school_vacation"} \subseteq DOMAIN file.lines[k]

\* C19: the dataset that a completed run of the entry point has persisted
\* carries is_holiday and is_school_vacation in every row.
C19_RunAddsCalendar ==
    ipc = "done" => HasCalendarFlags(mergedFile) \/ HasCalendarFlags(finalFile)

\* the same for the main() that an importing caller reaches
ImportedMainAddsCalendar ==
    (ipc = "done" /\ entry = "import") => HasCalendarFlags(finalFile)

\* C30: a run writes its dataset file in one step only, the last: after the
\* traffic was loaded, the weather fetched and saved, the two merged and the
\* result validated.  A run that fails writes no dataset file, so the file is
\* absent or as the earlier run left it, while the weather file may have been
\* written.
C30_MergedWrittenLast ==
    /\ [][(mergedFile' # mergedFile \/ finalFile' # finalFile) =>
              /\ ipc = "validated" /\ ipc' = "done"
              /\ error = "none"
              /\ traffic_df.rows # <<>>
              /\ req.sent
              /\ weatherFile.exists
              /\ merged_df.tz = "Europe/Brussels"
              /\ validation.total_records = Len(merged_df.rows)
              /\ validation.total_records >= 1]_vars
    /\ [][ipc' = "failed" => (mergedFile' = mergedFile /\ finalFile' = finalFile)]_vars
    /\ [](ipc = "failed" =>
             /\ mergedFile \in {NoTable, PreviousScriptDataset}
             /\ finalFile \in {NoTable, PreviousImportDataset})
    /\ [](ipc = "done" =>
             IF entry = "script" THEN mergedFile.lines = merged_df.rows
             ELSE finalFile.lines = merged_df.rows)

\* C30 witness: a run failed in the merge after it had written the weather
\* file; the dataset file of the earlier run is as it was.
C30_Witness ==
    /\ ipc = "failed"
    /\ error = "MergeError"
    /\ entry = "script"
    /\ weatherFile.exists
    /\ mergedFile = PreviousScriptDataset
    /\ mergedFile.exists

====
